---------------------------- MODULE Spec2Model ----------------------------
(***************************************************************************)
(* Model of modelguard: the pickle opcode analyzer (core/opcodes.py), the  *)
(* restricted unpickler and the safe_load pipelines (loaders/torch.py,     *)
(* loaders/sklearn.py) and the file scanner (core/scanner.py).             *)
(*                                                                         *)
(* Python strings are sequences of one-character strings, so that          *)
(* startswith, endswith, "in" and split are computed character by          *)
(* character.  A pickle byte stream is the sequence of its encoded         *)
(* opcodes; genops decodes it into (name, arg, pos) records.               *)
(***************************************************************************)
EXTENDS Integers, Sequences, FiniteSets, TLC

VARIABLES
    data,       \* the byte stream under analysis / being loaded; in the
                \* round trip, the object that is pickled
    analysis,   \* result of analyze_pickle_opcodes(data), or NoResult
    loaded,     \* outcome of RestrictedUnpickler(data).load(), or NoResult
    file,       \* the model file a path names: its state on disk
    scan,       \* the ScanResult of scan_file(path), or NoResult
    call,       \* the safe_load call: which loader, and the policy it loads
    pc,         \* the stage the safe_load call has reached
    log,        \* what the safe_load call has invoked so far, in order
    outcome,    \* how the safe_load call ended: the object source or the exception
    loaders,    \* the value of each framework attribute patched() replaces
    sys_modules, \* the frameworks present in sys.modules
    contexts,   \* the open patched() contexts, outermost first
    last_exit,  \* the patched() context that has just exited, or NoResult
    Unpickler,  \* the class bound to joblib.numpy_pickle.Unpickler
    threads     \* the concurrent _safe_joblib_load calls, one per thread

\* The state of patched() and the state shared by concurrent loads.
patching == <<loaders, sys_modules, contexts, last_exit>>

shared == <<Unpickler, threads>>

vars == <<data, analysis, loaded, file, scan, call, pc, log, outcome,
          patching, shared>>

NoResult == [none |-> TRUE]

---------------------------------------------------------------------------
(* Python str operations                                                   *)

\* s.startswith(p)
StartsWith(s, p) ==
    /\ Len(p) <= Len(s)
    /\ SubSeq(s, 1, Len(p)) = p

\* s.endswith(p)
EndsWith(s, p) ==
    /\ Len(p) <= Len(s)
    /\ SubSeq(s, Len(s) - Len(p) + 1, Len(s)) = p

\* p in s   (substring test)
Contains(s, p) ==
    \E i \in 1..(Len(s) - Len(p) + 1) : SubSeq(s, i, i + Len(p) - 1) = p

\* s.split(sep) for a one-character separator
RECURSIVE Split(_, _)
Split(s, sep) ==
    IF \E i \in 1..Len(s) : s[i] = sep
    THEN LET i == CHOOSE k \in 1..Len(s) :
                      /\ s[k] = sep
                      /\ \A j \in 1..(k - 1) : s[j] # sep
         IN  <<SubSeq(s, 1, i - 1)>> \o Split(SubSeq(s, i + 1, Len(s)), sep)
    ELSE <<s>>

\* f"{module}.{name}"
Dotted(module, name) == module \o <<".">> \o name

\* "%s %s" % (module, name): how genops decodes the argument of GLOBAL
Spaced(module, name) == module \o <<" ">> \o name

\* x in seq  (membership in a Python list)
InList(x, list) == \E i \in 1..Len(list) : list[i] = x

---------------------------------------------------------------------------
(* Classification tables, core/opcodes.py                                  *)

POTENTIALLY_DANGEROUS_OPCODES == {"GLOBAL", "REDUCE", "STACK_GLOBAL"}

\* The table without EXT4.
ALWAYS_DANGEROUS_OPCODES_NoExt4 == {"EXT1", "EXT2"}

ALWAYS_DANGEROUS_OPCODES == {"EXT1", "EXT2", "EXT4"}

SAFE_CLASSES ==
    { <<"b","u","i","l","t","i","n","s",".","l","i","s","t">>,
      <<"b","u","i","l","t","i","n","s",".","t","u","p","l","e">>,
      <<"b","u","i","l","t","i","n","s",".","d","i","c","t">>,
      <<"b","u","i","l","t","i","n","s",".","s","e","t">>,
      <<"b","u","i","l","t","i","n","s",".","f","r","o","z","e","n","s","e","t">>,
      <<"b","u","i","l","t","i","n","s",".","s","t","r">>,
      <<"b","u","i","l","t","i","n","s",".","i","n","t">>,
      <<"b","u","i","l","t","i","n","s",".","f","l","o","a","t">>,
      <<"b","u","i","l","t","i","n","s",".","b","o","o","l">>,
      <<"b","u","i","l","t","i","n","s",".","b","y","t","e","s">>,
      <<"b","u","i","l","t","i","n","s",".","b","y","t","e","a","r","r","a","y">>,
      <<"c","o","l","l","e","c","t","i","o","n","s",".","O","r","d","e","r","e","d","D","i","c","t">>,
      <<"c","o","l","l","e","c","t","i","o","n","s",".","d","e","f","a","u","l","t","d","i","c","t">>,
      <<"c","o","l","l","e","c","t","i","o","n","s",".","C","o","u","n","t","e","r">>,
      <<"c","o","l","l","e","c","t","i","o","n","s",".","d","e","q","u","e">>,
      <<"n","u","m","p","y",".","n","d","a","r","r","a","y">>,
      <<"n","u","m","p","y",".","d","t","y","p","e">>,
      <<"n","u","m","p","y",".","c","o","r","e",".","m","u","l","t","i","a","r","r","a","y",".","_","r","e","c","o","n","s","t","r","u","c","t">>,
      <<"n","u","m","p","y",".","c","o","r","e",".","m","u","l","t","i","a","r","r","a","y",".","s","c","a","l","a","r">>,
      <<"t","o","r","c","h",".","T","e","n","s","o","r">>,
      <<"t","o","r","c","h",".","n","n",".","p","a","r","a","m","e","t","e","r",".","P","a","r","a","m","e","t","e","r">>,
      <<"t","o","r","c","h",".","S","i","z","e">>,
      <<"t","o","r","c","h",".","d","t","y","p","e">>,
      <<"t","o","r","c","h",".","d","e","v","i","c","e">>,
      <<"t","o","r","c","h",".","s","t","o","r","a","g","e",".","_","T","y","p","e","d","S","t","o","r","a","g","e">>,
      <<"t","o","r","c","h",".","s","t","o","r","a","g","e",".","_","U","n","t","y","p","e","d","S","t","o","r","a","g","e">>,
      <<"t","o","r","c","h",".","F","l","o","a","t","S","t","o","r","a","g","e">>,
      <<"t","o","r","c","h",".","L","o","n","g","S","t","o","r","a","g","e">>,
      <<"t","o","r","c","h",".","I","n","t","S","t","o","r","a","g","e">>,
      <<"t","o","r","c","h",".","D","o","u","b","l","e","S","t","o","r","a","g","e">>,
      <<"t","o","r","c","h",".","B","y","t","e","S","t","o","r","a","g","e">>,
      <<"t","o","r","c","h",".","C","h","a","r","S","t","o","r","a","g","e">>,
      <<"t","o","r","c","h",".","S","h","o","r","t","S","t","o","r","a","g","e">>,
      <<"t","o","r","c","h",".","H","a","l","f","S","t","o","r","a","g","e">>,
      <<"t","o","r","c","h",".","B","o","o","l","S","t","o","r","a","g","e">>,
      <<"t","o","r","c","h",".","_","u","t","i","l","s",".","_","r","e","b","u","i","l","d","_","t","e","n","s","o","r","_","v","2">>,
      <<"t","o","r","c","h",".","_","u","t","i","l","s",".","_","r","e","b","u","i","l","d","_","p","a","r","a","m","e","t","e","r">>,
      <<"s","k","l","e","a","r","n",".","l","i","n","e","a","r","_","m","o","d","e","l",".","_","b","a","s","e",".","L","i","n","e","a","r","R","e","g","r","e","s","s","i","o","n">>,
      <<"s","k","l","e","a","r","n",".","l","i","n","e","a","r","_","m","o","d","e","l",".","_","l","o","g","i","s","t","i","c",".","L","o","g","i","s","t","i","c","R","e","g","r","e","s","s","i","o","n">>,
      <<"s","k","l","e","a","r","n",".","e","n","s","e","m","b","l","e",".","_","f","o","r","e","s","t",".","R","a","n","d","o","m","F","o","r","e","s","t","C","l","a","s","s","i","f","i","e","r">>,
      <<"s","k","l","e","a","r","n",".","e","n","s","e","m","b","l","e",".","_","f","o","r","e","s","t",".","R","a","n","d","o","m","F","o","r","e","s","t","R","e","g","r","e","s","s","o","r">>,
      <<"s","k","l","e","a","r","n",".","s","v","m",".","_","c","l","a","s","s","e","s",".","S","V","C">>,
      <<"s","k","l","e","a","r","n",".","s","v","m",".","_","c","l","a","s","s","e","s",".","S","V","R">>,
      <<"s","k","l","e","a","r","n",".","t","r","e","e",".","_","c","l","a","s","s","e","s",".","D","e","c","i","s","i","o","n","T","r","e","e","C","l","a","s","s","i","f","i","e","r">>,
      <<"s","k","l","e","a","r","n",".","t","r","e","e",".","_","c","l","a","s","s","e","s",".","D","e","c","i","s","i","o","n","T","r","e","e","R","e","g","r","e","s","s","o","r">>,
      <<"s","k","l","e","a","r","n",".","p","r","e","p","r","o","c","e","s","s","i","n","g",".","_","d","a","t","a",".","S","t","a","n","d","a","r","d","S","c","a","l","e","r">>,
      <<"s","k","l","e","a","r","n",".","p","r","e","p","r","o","c","e","s","s","i","n","g",".","_","d","a","t","a",".","M","i","n","M","a","x","S","c","a","l","e","r">>,
      <<"s","k","l","e","a","r","n",".","p","r","e","p","r","o","c","e","s","s","i","n","g",".","_","l","a","b","e","l",".","L","a","b","e","l","E","n","c","o","d","e","r">>,
      <<"s","k","l","e","a","r","n",".","m","o","d","e","l","_","s","e","l","e","c","t","i","o","n",".","_","s","p","l","i","t",".","t","r","a","i","n","_","t","e","s","t","_","s","p","l","i","t">>,
      <<"j","o","b","l","i","b",".","n","u","m","p","y","_","p","i","c","k","l","e",".","N","u","m","p","y","A","r","r","a","y","W","r","a","p","p","e","r">>,
      <<"j","o","b","l","i","b",".","n","u","m","p","y","_","p","i","c","k","l","e",".","Z","N","D","A","r","r","a","y","W","r","a","p","p","e","r">> }

dangerous_patterns ==
    << <<"o","s",".","s","y","s","t","e","m">>,
       <<"o","s",".","p","o","p","e","n">>,
       <<"o","s",".","e","x","e","c">>,
       <<"o","s",".","s","p","a","w","n">>,
       <<"s","u","b","p","r","o","c","e","s","s",".">>,
       <<"e","v","a","l">>,
       <<"e","x","e","c">>,
       <<"c","o","m","p","i","l","e">>,
       <<"_","_","i","m","p","o","r","t","_","_">>,
       <<"i","m","p","o","r","t","l","i","b">>,
       <<"u","r","l","l","i","b",".">>,
       <<"r","e","q","u","e","s","t","s",".">>,
       <<"h","t","t","p",".">>,
       <<"s","o","c","k","e","t",".">>,
       <<"f","t","p","l","i","b",".">>,
       <<"s","m","t","p","l","i","b",".">>,
       <<"n","t",".","s","y","s","t","e","m">>,
       <<"p","o","s","i","x",".","s","y","s","t","e","m">> >>

safe_patterns ==
    << <<"n","u","m","p","y",".">>,
       <<"t","o","r","c","h",".">>,
       <<"s","k","l","e","a","r","n",".">>,
       <<"t","e","n","s","o","r","f","l","o","w",".">>,
       <<"c","o","l","l","e","c","t","i","o","n","s",".">>,
       <<"b","u","i","l","t","i","n","s",".">>,
       <<"j","o","b","l","i","b",".">>,
       <<"_","p","i","c","k","l","e",".">>,
       <<"c","o","p","y","r","e","g",".">>,
       <<"f","u","n","c","t","o","o","l","s",".">> >>

---------------------------------------------------------------------------
(* The byte stream and its disassembly (pickletools.genops)                *)

\* One encoded opcode: its mnemonic, up to two string operands (GLOBAL has
\* two: module and name, each newline-terminated) and an integer operand.
Item(name, s1, s2, n) == [name |-> name, s1 |-> s1, s2 |-> s2, n |-> n]

\* Number of bytes the opcode occupies in the stream.
OpSize(item) ==
    CASE item.name = "SHORT_BINUNICODE" -> 2 + Len(item.s1)
      [] item.name = "BINUNICODE"       -> 5 + Len(item.s1)
      [] item.name \in {"GLOBAL", "INST"} -> 3 + Len(item.s1) + Len(item.s2)
      [] item.name \in {"EXT1", "BINGET", "PROTO", "BININT1"} -> 2
      [] item.name = "FRAME"            -> 9
      [] item.name = "EXT2"             -> 3
      [] item.name = "EXT4"             -> 5
      [] OTHER                          -> 1

\* The decoded argument of an opcode as genops yields it.
DecodedArg(item) ==
    IF item.name \in {"GLOBAL", "INST"} THEN Spaced(item.s1, item.s2) ELSE item.s1

\* Index of the first STOP opcode, 0 when the stream has none.
FirstStop(stream) ==
    IF \E i \in 1..Len(stream) : stream[i].name = "STOP"
    THEN CHOOSE i \in 1..Len(stream) :
             /\ stream[i].name = "STOP"
             /\ \A j \in 1..(i - 1) : stream[j].name # "STOP"
    ELSE 0

RECURSIVE Offset(_, _)
Offset(stream, i) ==
    IF i <= 1 THEN 0 ELSE Offset(stream, i - 1) + OpSize(stream[i - 1])

\* Index of the first item genops cannot decode, 0 when there is none:
\* "UNKNOWN" is a byte that is no opcode, "CUT" an opcode whose argument
\* runs past the end of the data.
FirstBad(stream) ==
    IF \E i \in 1..Len(stream) : stream[i].name \in {"UNKNOWN", "CUT"}
    THEN CHOOSE i \in 1..Len(stream) :
             /\ stream[i].name \in {"UNKNOWN", "CUT"}
             /\ \A j \in 1..(i - 1) : stream[j].name \notin {"UNKNOWN", "CUT"}
    ELSE 0

\* genops that only fails on a stream without STOP.
GenopsRaises_StopOnly(stream) == FirstStop(stream) = 0

\* genops raises ValueError when the stream is exhausted before STOP, at a
\* byte that is no opcode, and at an argument that is cut short.
GenopsRaises(stream) ==
    \/ FirstStop(stream) = 0
    \/ FirstBad(stream) # 0 /\ FirstBad(stream) < FirstStop(stream)

\* list(pickletools.genops(data)): records up to and including the first STOP.
genops(stream) ==
    [i \in 1..FirstStop(stream) |->
        [name |-> stream[i].name,
         arg  |-> DecodedArg(stream[i]),
         num  |-> stream[i].n,
         pos  |-> Offset(stream, i)]]

---------------------------------------------------------------------------
(* analyze_pickle_opcodes, core/opcodes.py                                 *)

UNKNOWN_STACK_GLOBAL ==
    <<"U","N","K","N","O","W","N","_","S","T","A","C","K","_",
      "G","L","O","B","A","L">>

\* The entry appended to always_dangerous_found / potentially_dangerous_found.
Finding(rec) ==
    [opcode |-> rec.name, position |-> rec.pos, arg |-> rec.arg, num |-> rec.num]

_is_safe_import(import_name) ==
    IF import_name = UNKNOWN_STACK_GLOBAL THEN FALSE
    ELSE IF \E k \in 1..Len(dangerous_patterns) :
                Contains(import_name, dangerous_patterns[k]) THEN FALSE
    ELSE IF \E k \in 1..Len(safe_patterns) :
                StartsWith(import_name, safe_patterns[k]) THEN TRUE
    ELSE IF /\ Contains(import_name, <<".">>)
            /\ ~ StartsWith(import_name, <<"o","s",".">>)
            /\ ~ StartsWith(import_name,
                            <<"s","u","b","p","r","o","c","e","s","s",".">>)
            /\ ~ StartsWith(import_name, <<"s","y","s",".">>)
         THEN LET parts == Split(import_name, ".")
              IN  /\ Len(parts) = 2
                  /\ \/ EndsWith(parts[1], <<"_">>)
                     \/ parts[2] \in { <<"d","t","y","p","e">>,
                                       <<"s","h","a","p","e">>,
                                       <<"s","i","z","e">>,
                                       <<"n","d","i","m">>,
                                       <<"s","c","a","l","a","r">> }
    ELSE FALSE

\* Locals of analyze_pickle_opcodes before the loop.
LoopInit ==
    [opcodes_found               |-> {},
     always_dangerous_found      |-> <<>>,
     potentially_dangerous_found |-> <<>>,
     global_imports              |-> <<>>,
     stack_global_imports        |-> <<>>,
     stack                       |-> <<>>]

\* "Check for always dangerous opcodes"
RecordAlwaysDangerous(st, rec) ==
    IF rec.name \in ALWAYS_DANGEROUS_OPCODES
    THEN [st EXCEPT !.always_dangerous_found = Append(@, Finding(rec))]
    ELSE st

\* "Check for potentially dangerous opcodes"
RecordPotentiallyDangerous(st, rec) ==
    IF rec.name \in POTENTIALLY_DANGEROUS_OPCODES
    THEN [st EXCEPT !.potentially_dangerous_found = Append(@, Finding(rec))]
    ELSE st

\* "Track stack for STACK_GLOBAL analysis"
TrackStack(st, rec) ==
    IF rec.name = "SHORT_BINUNICODE" /\ rec.arg # <<>>
    THEN [st EXCEPT !.stack = Append(@, rec.arg)]
    ELSE IF rec.name = "STACK_GLOBAL"
    THEN IF Len(st.stack) >= 2
         THEN LET name        == st.stack[Len(st.stack)]
                  module      == st.stack[Len(st.stack) - 1]
                  import_name == Dotted(module, name)
              IN  [st EXCEPT
                     !.stack = SubSeq(@, 1, Len(@) - 2),
                     !.stack_global_imports = Append(@, import_name),
                     !.global_imports = Append(@, import_name)]
         ELSE [st EXCEPT
                 !.stack_global_imports = Append(@, UNKNOWN_STACK_GLOBAL),
                 !.global_imports = Append(@, UNKNOWN_STACK_GLOBAL)]
    ELSE st

\* "Collect regular global imports"
CollectGlobal(st, rec) ==
    IF rec.name = "GLOBAL" /\ rec.arg # <<>>
    THEN [st EXCEPT !.global_imports = Append(@, rec.arg)]
    ELSE st

\* One iteration with global_imports kept in one list of the module, which
\* every call appends to, instead of a local of the call.
LoopBody_Shared(st, rec) ==
    LET s0 == [st EXCEPT !.opcodes_found = @ \cup {rec.name},
                         !.global_imports = threads[1].st.global_imports]
        s1 == RecordAlwaysDangerous(s0, rec)
        s2 == RecordPotentiallyDangerous(s1, rec)
        s3 == TrackStack(s2, rec)
    IN  CollectGlobal(s3, rec)

\* One iteration of "for opcode, arg, pos in ops".
LoopBody(st, rec) ==
    LET s0 == [st EXCEPT !.opcodes_found = @ \cup {rec.name}]
        s1 == RecordAlwaysDangerous(s0, rec)
        s2 == RecordPotentiallyDangerous(s1, rec)
        s3 == TrackStack(s2, rec)
    IN  CollectGlobal(s3, rec)

RECURSIVE Loop(_, _)
Loop(ops, i) ==
    IF i = 0 THEN LoopInit
    ELSE LET st == Loop(ops, i - 1)
         IN  \* the test has st evaluated before the iteration that uses it,
             \* which keeps the depth of evaluation independent of Len(ops)
             IF st.stack = st.stack THEN LoopBody(st, ops[i]) ELSE st

\* "Check for unsafe global imports"
RECURSIVE UnsafeImports(_)
UnsafeImports(global_imports) ==
    IF global_imports = <<>> THEN <<>>
    ELSE LET imp  == Head(global_imports)
             rest == UnsafeImports(Tail(global_imports))
         IN  IF imp \notin SAFE_CLASSES /\ ~ _is_safe_import(imp)
             THEN <<imp>> \o rest
             ELSE rest

\* dangerous_opcodes = always_dangerous_found (+ potentially_dangerous_found
\* when there are unsafe imports)
\* dangerous_opcodes without the potentially dangerous opcodes.
DangerousOpcodes_AlwaysOnly(always_dangerous_found, potentially_dangerous_found, unsafe_imports) ==
    always_dangerous_found

DangerousOpcodes(always_dangerous_found, potentially_dangerous_found, unsafe_imports) ==
    IF unsafe_imports # <<>>
    THEN always_dangerous_found \o potentially_dangerous_found
    ELSE always_dangerous_found

\* The verdict taken from the imports alone.
Verdict_ImportsOnly(always_dangerous_found, unsafe_imports) ==
    Len(unsafe_imports) = 0

\* is_safe = len(always_dangerous_found) == 0 and len(unsafe_imports) == 0
Verdict(always_dangerous_found, unsafe_imports) ==
    /\ Len(always_dangerous_found) = 0
    /\ Len(unsafe_imports) = 0

\* The dictionary returned from the except branch.
ParseErrorResult ==
    [error                |-> TRUE,
     is_safe              |-> FALSE,
     opcodes_found        |-> {},
     dangerous_opcodes    |-> <<>>,
     global_imports       |-> <<>>,
     stack_global_imports |-> <<>>,
     unsafe_imports       |-> <<>>,
     total_opcodes        |-> 0]

\* The code after the loop: the dictionary returned from the locals st.
Summary(st, total_opcodes) ==
    LET unsafe_imports == UnsafeImports(st.global_imports)
    IN  [error                |-> FALSE,
         is_safe              |-> Verdict(st.always_dangerous_found,
                                          unsafe_imports),
         opcodes_found        |-> st.opcodes_found,
         dangerous_opcodes    |-> DangerousOpcodes(
                                      st.always_dangerous_found,
                                      st.potentially_dangerous_found,
                                      unsafe_imports),
         global_imports       |-> st.global_imports,
         stack_global_imports |-> st.stack_global_imports,
         unsafe_imports       |-> unsafe_imports,
         total_opcodes        |-> total_opcodes]

analyze_pickle_opcodes(stream) ==
    IF GenopsRaises(stream) THEN ParseErrorResult
    ELSE LET ops == genops(stream)
         IN  Summary(Loop(ops, Len(ops)), Len(ops))

---------------------------------------------------------------------------
(* RestrictedUnpickler, loaders/torch.py                                   *)

safe_globals ==
    { <<"t","o","r","c","h",".","_","u","t","i","l","s",".","_","r","e","b","u","i","l","d","_","t","e","n","s","o","r","_","v","2">>,
      <<"t","o","r","c","h",".","_","u","t","i","l","s",".","_","r","e","b","u","i","l","d","_","p","a","r","a","m","e","t","e","r">>,
      <<"t","o","r","c","h",".","n","n",".","p","a","r","a","m","e","t","e","r",".","P","a","r","a","m","e","t","e","r">>,
      <<"t","o","r","c","h",".","T","e","n","s","o","r">>,
      <<"t","o","r","c","h",".","S","i","z","e">>,
      <<"t","o","r","c","h",".","d","t","y","p","e">>,
      <<"t","o","r","c","h",".","d","e","v","i","c","e">>,
      <<"t","o","r","c","h",".","s","t","o","r","a","g","e",".","_","T","y","p","e","d","S","t","o","r","a","g","e">>,
      <<"t","o","r","c","h",".","s","t","o","r","a","g","e",".","_","U","n","t","y","p","e","d","S","t","o","r","a","g","e">>,
      <<"c","o","l","l","e","c","t","i","o","n","s",".","O","r","d","e","r","e","d","D","i","c","t">>,
      <<"c","o","l","l","e","c","t","i","o","n","s",".","d","e","f","a","u","l","t","d","i","c","t">>,
      <<"c","o","l","l","e","c","t","i","o","n","s",".","C","o","u","n","t","e","r">>,
      <<"c","o","l","l","e","c","t","i","o","n","s",".","d","e","q","u","e">>,
      <<"n","u","m","p","y",".","n","d","a","r","r","a","y">>,
      <<"n","u","m","p","y",".","d","t","y","p","e">>,
      <<"n","u","m","p","y",".","c","o","r","e",".","m","u","l","t","i","a","r","r","a","y",".","_","r","e","c","o","n","s","t","r","u","c","t">>,
      <<"n","u","m","p","y",".","c","o","r","e",".","m","u","l","t","i","a","r","r","a","y",".","s","c","a","l","a","r">>,
      <<"b","u","i","l","t","i","n","s",".","l","i","s","t">>,
      <<"b","u","i","l","t","i","n","s",".","t","u","p","l","e">>,
      <<"b","u","i","l","t","i","n","s",".","d","i","c","t">>,
      <<"b","u","i","l","t","i","n","s",".","s","e","t">>,
      <<"b","u","i","l","t","i","n","s",".","f","r","o","z","e","n","s","e","t">> }

safe_modules ==
    << <<"t","o","r","c","h">>,
       <<"n","u","m","p","y">>,
       <<"c","o","l","l","e","c","t","i","o","n","s">>,
       <<"b","u","i","l","t","i","n","s">> >>

\* find_class without the test of the module prefix.
find_class_GlobalsOnly(module, name) ==
    IF Dotted(module, name) \in safe_globals THEN "resolved"
    ELSE "MaliciousModelError"

\* RestrictedUnpickler.find_class: "resolved" when the call is passed on to
\* pickle.Unpickler.find_class and its result returned, else the exception.
find_class(module, name) ==
    LET full_name == Dotted(module, name)
    IN  IF full_name \in safe_globals THEN "resolved"
        ELSE IF \E k \in 1..Len(safe_modules) :
                    StartsWith(module, safe_modules[k]) THEN "resolved"
        ELSE "MaliciousModelError"

\* str(n) for n >= 0
RECURSIVE Decimal(_)
Decimal(n) ==
    LET digit == <<"0","1","2","3","4","5","6","7","8","9">>[(n % 10) + 1]
    IN  IF n < 10 THEN <<digit>> ELSE Decimal(n \div 10) \o <<digit>>

\* Values on the unpickler's stack.  tracked records where a string came
\* from: TRUE exactly for a literal the analyzer's simulated stack holds
\* (SHORT_BINUNICODE with a non-empty argument).
StrValue(text, tracked) == [kind |-> "str", text |-> text, tracked |-> tracked]
OtherValue(kind, text)  == [kind |-> kind, text |-> text, tracked |-> FALSE]

\* The contents of a value: the elements of a list or tuple in order, the
\* keys and values of a dict alternating in insertion order, the arguments
\* an object was built from.  Strings and numbers have none.
Items(v) == IF "items" \in DOMAIN v THEN v.items ELSE <<>>

Container(kind, text, items) == [kind |-> kind, text |-> text, tracked |-> FALSE, items |-> items]

\* A value without the record of where it came from.
RECURSIVE Plain(_)
Plain(v) ==
    [kind |-> v.kind, text |-> v.text,
     items |-> [i \in 1..Len(Items(v)) |-> Plain(Items(v)[i])]]

\* d[k] = v on the contents of a dict
SetItem(items, k, v) ==
    LET at == { j \in 1..Len(items) : j % 2 = 1 /\ Plain(items[j]) = Plain(k) }
    IN  IF at = {} THEN items \o <<k, v>>
        ELSE [items EXCEPT ![(CHOOSE j \in at : TRUE) + 1] = v]

RECURSIVE SetItems(_, _)
SetItems(items, pairs) ==
    IF Len(pairs) < 2 THEN items
    ELSE SetItems(SetItem(items, pairs[1], pairs[2]), SubSeq(pairs, 3, Len(pairs)))

\* The index of the topmost mark on the stack, 0 when there is none.
TopMark(stack) ==
    LET marks == { k \in 1..Len(stack) : stack[k].kind = "mark" }
    IN  IF marks = {} THEN 0 ELSE CHOOSE k \in marks : \A j \in marks : j <= k

\* The unpickler after __init__: empty stack and memo, nothing resolved.
MachineInit ==
    [stack    |-> <<>>,
     memo     |-> <<>>,
     status   |-> "running",
     resolved |-> <<>>,    \* (module, name) pairs find_class returned
     rejected |-> <<>>,    \* (module, name) pairs find_class refused
     invoked  |-> <<>>,    \* qualified names called by REDUCE
     operands |-> <<>>,    \* (module, name) values popped by STACK_GLOBAL
     value    |-> NoResult]    \* the object load() returns

Push(m, v) == [m EXCEPT !.stack = Append(@, v)]

Fault(m) == [m EXCEPT !.status = "UnpicklingError"]

\* The unpickler asking find_class for module.name and pushing the result.
\* restricted is FALSE for a plain pickle.Unpickler, whose find_class is
\* not overridden.
Resolve(m, module, name, restricted) ==
    IF ~ restricted \/ find_class(module, name) = "resolved"
    THEN [m EXCEPT !.stack    = Append(@, OtherValue("global",
                                                     Dotted(module, name))),
                   !.resolved = Append(@, <<module, name>>)]
    ELSE [m EXCEPT !.status   = "MaliciousModelError",
                   !.rejected = Append(@, <<module, name>>)]

\* One opcode of pickle.Unpickler.load, with find_class overridden.
Execute(m, item, restricted) ==
    LET n   == Len(m.stack)
        top == m.stack[n]
        snd == m.stack[n - 1]
    IN
    CASE item.name = "SHORT_BINUNICODE" ->
            Push(m, StrValue(item.s1, item.s1 # <<>>))
      [] item.name = "BINUNICODE" ->
            Push(m, StrValue(item.s1, FALSE))
      [] item.name = "NONE" ->
            Push(m, OtherValue("none", <<>>))
      [] item.name = "EMPTY_TUPLE" ->
            Push(m, OtherValue("tuple", <<>>))
      [] item.name = "EMPTY_DICT" ->
            Push(m, OtherValue("dict", <<>>))
      [] item.name = "EMPTY_LIST" ->
            Push(m, OtherValue("list", <<>>))
      [] item.name = "BININT1" ->
            Push(m, OtherValue("int", Decimal(item.n)))
      [] item.name = "MARK" ->
            Push(m, OtherValue("mark", <<>>))
      [] item.name = "TUPLE1" ->
            IF n < 1 THEN Fault(m)
            ELSE [m EXCEPT !.stack = Append(SubSeq(@, 1, n - 1),
                                            Container("tuple", <<>>, <<top>>))]
      [] item.name = "TUPLE2" ->
            IF n < 2 THEN Fault(m)
            ELSE [m EXCEPT !.stack = Append(SubSeq(@, 1, n - 2),
                                            Container("tuple", <<>>, <<snd, top>>))]
      [] item.name = "TUPLE3" ->
            IF n < 3 THEN Fault(m)
            ELSE [m EXCEPT !.stack = Append(SubSeq(@, 1, n - 3),
                                            Container("tuple", <<>>, SubSeq(m.stack, n - 2, n)))]
      [] item.name = "APPEND" ->
            IF n < 2 THEN Fault(m)
            ELSE IF snd.kind # "list" THEN Fault(m)
            ELSE [m EXCEPT !.stack = Append(SubSeq(@, 1, n - 2),
                                            Container("list", <<>>, Append(Items(snd), top)))]
      [] item.name = "APPENDS" ->
            LET k == TopMark(m.stack)
            IN  IF k < 2 THEN Fault(m)
                ELSE IF m.stack[k - 1].kind # "list" THEN Fault(m)
                ELSE [m EXCEPT !.stack = Append(SubSeq(@, 1, k - 2),
                                                Container("list", <<>>, Items(m.stack[k - 1]) \o SubSeq(m.stack, k + 1, n)))]
      [] item.name = "SETITEM" ->
            IF n < 3 THEN Fault(m)
            ELSE IF m.stack[n - 2].kind # "dict" THEN Fault(m)
            ELSE [m EXCEPT !.stack = Append(SubSeq(@, 1, n - 3),
                                            Container("dict", <<>>, SetItem(Items(m.stack[n - 2]), snd, top)))]
      [] item.name = "SETITEMS" ->
            LET k == TopMark(m.stack)
            IN  IF k < 2 \/ (n - k) % 2 = 1 THEN Fault(m)
                ELSE IF m.stack[k - 1].kind # "dict" THEN Fault(m)
                ELSE [m EXCEPT !.stack = Append(SubSeq(@, 1, k - 2),
                                                Container("dict", <<>>, SetItems(Items(m.stack[k - 1]), SubSeq(m.stack, k + 1, n))))]
      [] item.name \in {"PROTO", "FRAME"} -> m
      [] item.name = "MEMOIZE" ->
            IF n = 0 THEN Fault(m)
            ELSE [m EXCEPT !.memo = Append(@, top)]
      [] item.name = "BINGET" ->
            IF item.n < Len(m.memo)
            THEN Push(m, [m.memo[item.n + 1] EXCEPT !.tracked = FALSE])
            ELSE Fault(m)
      [] item.name = "POP" ->
            IF n = 0 THEN Fault(m)
            ELSE [m EXCEPT !.stack = SubSeq(@, 1, n - 1)]
      [] item.name = "GLOBAL" ->
            Resolve(m, item.s1, item.s2, restricted)
      [] item.name = "INST" ->
            LET k == TopMark(m.stack)
                r == Resolve([m EXCEPT !.stack = SubSeq(@, 1, k - 1)], item.s1, item.s2, restricted)
            IN  IF k = 0 THEN Fault(m)
                ELSE IF r.status # "running" THEN r
                ELSE [r EXCEPT !.stack = Append(SubSeq(m.stack, 1, k - 1),
                                                Container("object", Dotted(item.s1, item.s2), SubSeq(m.stack, k + 1, n))),
                               !.invoked = Append(@, Dotted(item.s1, item.s2))]
      [] item.name = "STACK_GLOBAL" ->
            IF n < 2 THEN Fault(m)
            ELSE IF top.kind # "str" \/ snd.kind # "str" THEN Fault(m)
            ELSE Resolve([m EXCEPT !.stack    = SubSeq(@, 1, n - 2),
                                   !.operands = Append(@, <<snd, top>>)],
                         snd.text, top.text, restricted)
      [] item.name = "REDUCE" ->
            IF n < 2 THEN Fault(m)
            ELSE IF top.kind # "tuple" \/ snd.kind # "global" THEN Fault(m)
            ELSE [m EXCEPT !.stack   = Append(SubSeq(@, 1, n - 2),
                                              Container("object", snd.text, Items(top))),
                           !.invoked = Append(@, snd.text)]
      [] item.name \in {"EXT1", "EXT2", "EXT4"} ->
            Fault(m)    \* unregistered extension code
      [] item.name = "STOP" ->
            IF n = 0 THEN Fault(m)
            ELSE [m EXCEPT !.status = "ok", !.value = top]
      [] OTHER -> Fault(m)

RECURSIVE Run(_, _, _, _)
Run(m, stream, i, restricted) ==
    IF m.status # "running" THEN m
    ELSE IF i > Len(stream) THEN Fault(m)    \* ran out of input
    ELSE Run(Execute(m, stream[i], restricted), stream, i + 1, restricted)

\* Unpickler(f).load(): the opcodes run in order until STOP or an exception.
UnpicklerLoad(stream, restricted) ==
    LET m == Run(MachineInit, stream, 1, restricted)
    IN  [status   |-> m.status,
         resolved |-> m.resolved,
         rejected |-> m.rejected,
         invoked  |-> m.invoked,
         operands |-> m.operands,
         value    |-> m.value]

\* RestrictedUnpickler(f).load()
RestrictedLoad(stream) == UnpicklerLoad(stream, TRUE)

\* pickle.load(f)
PickleLoad(stream) == UnpicklerLoad(stream, FALSE)

---------------------------------------------------------------------------
(* ModelScanner, core/scanner.py                                           *)

\* A file on disk.  format tells what its bytes are: "stream" (the pickle
\* stream in stream), "zip" (an archive of members, each a file name and
\* the member's bytes as a stream), "corrupt_zip" (bytes that end like an
\* archive but cannot be read as one) or "other".
\* searchable is FALSE when a directory on the way to the file denies search
\* permission, so that stat() on the path fails with EACCES.
File(exists, is_file, suffix, readable, format, stream, members, searchable) ==
    [exists |-> exists, is_file |-> is_file, suffix |-> suffix,
     readable |-> readable, format |-> format, stream |-> stream,
     members |-> members, searchable |-> searchable]

Member(filename, stream) == [filename |-> filename, stream |-> stream]

\* path.suffix.lower()
Lower(suffix) ==
    CASE suffix = ".PKL" -> ".pkl"
      [] suffix = ".PTH" -> ".pth"
      [] suffix = ".H5"  -> ".h5"
      [] suffix = ".ONNX" -> ".onnx"
      [] suffix = ".HDF5" -> ".hdf5"
      [] suffix = ".Pb"   -> ".pb"
      [] OTHER -> suffix

supported_extensions ==
    {".pkl", ".pickle", ".pth", ".pt", ".h5", ".hdf5", ".pb", ".onnx", ".joblib"}

\* The mnemonic of an opcode as text.
OpcodeText(name) ==
    CASE name = "GLOBAL"       -> <<"G","L","O","B","A","L">>
      [] name = "REDUCE"       -> <<"R","E","D","U","C","E">>
      [] name = "STACK_GLOBAL" -> <<"S","T","A","C","K","_","G","L","O","B","A","L">>
      [] name = "EXT1"         -> <<"E","X","T","1">>
      [] name = "EXT2"         -> <<"E","X","T","2">>
      [] name = "EXT4"         -> <<"E","X","T","4">>
      [] OTHER                 -> <<"?">>

ScanResult(is_safe, error, threats, format, files_scanned) ==
    [is_safe |-> is_safe, error |-> error, threats |-> threats,
     format |-> format, files_scanned |-> files_scanned]

ErrorResult(error) == ScanResult(FALSE, error, <<>>, "", <<>>)

RECURSIVE StreamBytes(_)
StreamBytes(stream) ==
    IF stream = <<>> THEN 0
    ELSE OpSize(Head(stream)) + StreamBytes(Tail(stream))

\* ModelScanner._is_pickle_data: a protocol 2..5 header, or a first byte
\* '(' (MARK), ']' (EMPTY_LIST) or '}' (EMPTY_DICT).
_is_pickle_data(f) ==
    /\ f.format = "stream"
    /\ StreamBytes(f.stream) >= 2
    /\ \/ f.stream[1].name = "PROTO" /\ f.stream[1].n \in 2..5
       \/ f.stream[1].name \in {"MARK", "EMPTY_LIST", "EMPTY_DICT"}

\* The threat strings _scan_pickle_based builds from an analysis.
PickleThreats(a) ==
    [i \in 1..Len(a.dangerous_opcodes) |->
        <<"D","a","n","g","e","r","o","u","s"," ","o","p","c","o","d","e",":"," ">> \o OpcodeText(a.dangerous_opcodes[i].opcode)
            \o <<" ","a","t"," ","p","o","s","i","t","i","o","n"," ">> \o Decimal(a.dangerous_opcodes[i].position)]
    \o
    [i \in 1..Len(a.unsafe_imports) |-> <<"U","n","s","a","f","e"," ","i","m","p","o","r","t",":"," ">> \o a.unsafe_imports[i]]

\* Threat strings that leave out the member's file name.
MemberThreats_Unlabelled(filename, a) ==
    [i \in 1..Len(a.dangerous_opcodes) |->
        <<"D","a","n","g","e","r","o","u","s"," ","o","p","c","o","d","e"," ">> \o OpcodeText(a.dangerous_opcodes[i].opcode)]
    \o
    [i \in 1..Len(a.unsafe_imports) |-> <<"U","n","s","a","f","e"," ","i","m","p","o","r","t"," ">> \o a.unsafe_imports[i]]

\* The threat strings _scan_zip_archive builds from one member's analysis.
MemberThreats(filename, a) ==
    [i \in 1..Len(a.dangerous_opcodes) |->
        filename \o <<":"," ","D","a","n","g","e","r","o","u","s"," ","o","p","c","o","d","e"," ">>
            \o OpcodeText(a.dangerous_opcodes[i].opcode)]
    \o
    [i \in 1..Len(a.unsafe_imports) |->
        filename \o <<":"," ","U","n","s","a","f","e"," ","i","m","p","o","r","t"," ">> \o a.unsafe_imports[i]]

\* "if file_info.filename.endswith('.pkl')"
IsScannedMember(filename) == EndsWith(filename, <<".","p","k","l">>)

\* The loop of _scan_zip_archive over zf.filelist: the members analysed,
\* each with its analysis, in archive order.
RECURSIVE FilesScanned(_)
FilesScanned(members) ==
    IF members = <<>> THEN <<>>
    ELSE LET m == Head(members)
         IN  (IF IsScannedMember(m.filename)
              THEN <<[filename |-> m.filename,
                      analysis |-> analyze_pickle_opcodes(m.stream)]>>
              ELSE <<>>)
             \o FilesScanned(Tail(members))

RECURSIVE ZipThreats(_)
ZipThreats(files_scanned) ==
    IF files_scanned = <<>> THEN <<>>
    ELSE MemberThreats(Head(files_scanned).filename, Head(files_scanned).analysis)
         \o ZipThreats(Tail(files_scanned))

\* zipfile.is_zipfile(path)
is_zipfile(f) == f.format \in {"zip", "corrupt_zip"}

_scan_zip_archive(f) ==
    IF f.format = "corrupt_zip" THEN ErrorResult("Failed to scan ZIP archive")
    ELSE LET files_scanned == FilesScanned(f.members)
             threats       == ZipThreats(files_scanned)
         IN  ScanResult(Len(threats) = 0, "", threats, "zip", files_scanned)

_scan_pickle_based(f) ==
    IF ~ f.readable THEN ErrorResult("Failed to scan pickle")
    ELSE IF ~ _is_pickle_data(f)
    THEN IF is_zipfile(f) THEN _scan_zip_archive(f)
         ELSE ErrorResult("Not valid pickle or ZIP data")
    ELSE LET a == analyze_pickle_opcodes(f.stream)
         IN  IF a.error THEN ErrorResult("Failed to parse pickle")
             ELSE LET threats == PickleThreats(a)
                  IN  ScanResult(Len(threats) = 0 /\ a.is_safe, "", threats,
                                 "pickle", <<>>)

\* A scan that looks for pickle data inside HDF5 and ONNX files.
_scan_by_format_Embedded(f) ==
    LET suffix == Lower(f.suffix)
    IN  IF suffix \in {".pkl", ".pickle", ".pth", ".pt", ".joblib", ".h5", ".hdf5", ".onnx"}
        THEN _scan_pickle_based(f)
        ELSE IF suffix = ".pb"
        THEN ScanResult(TRUE, "", <<>>, "protobuf", <<>>)
        ELSE ErrorResult("Scan failed")

_scan_by_format(f) ==
    LET suffix == Lower(f.suffix)
    IN  IF suffix \in {".pkl", ".pickle", ".pth", ".pt", ".joblib"}
        THEN _scan_pickle_based(f)
        ELSE IF suffix \in {".h5", ".hdf5"}
        THEN ScanResult(TRUE, "", <<>>, "hdf5", <<>>)
        ELSE IF suffix = ".pb"
        THEN ScanResult(TRUE, "", <<>>, "protobuf", <<>>)
        ELSE IF suffix = ".onnx"
        THEN ScanResult(TRUE, "", <<>>, "onnx", <<>>)
        ELSE ErrorResult("Scan failed")

\* "if not path.exists()": Path.exists() lets an OSError other than
\* ENOENT, ENOTDIR, EBADF and ELOOP through, and the test is outside the
\* try block of scan_file.
ScanFileRaises(f) == ~ f.searchable

\* ModelScanner.scan_file
scan_file(f) ==
    IF ~ f.exists THEN ErrorResult("File not found")
    ELSE IF ~ f.is_file THEN ErrorResult("Not a file")
    ELSE IF Lower(f.suffix) \notin supported_extensions
    THEN ErrorResult("Unsupported file extension")
    ELSE _scan_by_format(f)

---------------------------------------------------------------------------
(* safe_load, loaders/torch.py and loaders/sklearn.py                      *)

\* What safe_load reads besides the file: the loader used, the policy that
\* load_policy() returns, whether the file exceeds get_max_file_size(), the
\* state of its signature, and whether "import torch" succeeds.
Call(loader, enforce, scan_on_load, require_signatures, too_large, signature, torch_available) ==
    [loader |-> loader, enforce |-> enforce, scan_on_load |-> scan_on_load,
     require_signatures |-> require_signatures, too_large |-> too_large,
     signature |-> signature, torch_available |-> torch_available]

\* _verify_signature raises unless the .sig file exists, verifies, and its
\* signer is trusted.
SignatureRaises(c) == c.signature # "trusted"

\* _scan_for_threats raises when the scan is unsafe and the policy enforces.
ScanRaises(c, result) == ~ result.is_safe /\ c.enforce

\* The except branch without the test of the enforce flag.
LoadFailureRaises_Never(c) == FALSE

\* "if policy.should_enforce()" in the except branch of safe_load: the
\* failure of the restricted load is raised as MaliciousModelError.
LoadFailureRaises(c) == c.enforce

\* The body of the try block: path.open('rb') and the restricted load.  For
\* sklearn and a .joblib file this is _safe_joblib_load, where joblib.load
\* unpickles with the class bound to joblib.numpy_pickle.Unpickler, which
\* is RestrictedUnpickler for the duration of the call.
RestrictedAttempt(f) ==
    IF ~ f.exists \/ ~ f.readable
    THEN [opened |-> FALSE, result |-> [RestrictedLoad(<<>>) EXCEPT !.status = "OSError"]]
    ELSE [opened |-> TRUE,
          result |-> IF f.format = "stream" THEN RestrictedLoad(f.stream)
                     ELSE RestrictedLoad(<<>>)]

\* The unguarded loader of the fallback: torch.load, joblib.load or
\* pickle.load on the same path.
UnguardedAttempt(f) ==
    IF ~ f.exists \/ ~ f.readable
    THEN [PickleLoad(<<>>) EXCEPT !.status = "OSError"]
    ELSE IF f.format = "stream" THEN PickleLoad(f.stream)
    ELSE PickleLoad(<<>>)

Finish(result) ==
    /\ pc' = "done"
    /\ outcome' = result

\* The size check without the limit.
CheckSize_NoLimit ==
    /\ pc = "size"
    /\ call.loader # "tensorflow"
    /\ log' = Append(log, "stat")
    /\ IF ~ file.exists THEN Finish("FileNotFoundError")
       ELSE pc' = "signature" /\ UNCHANGED outcome
    /\ UNCHANGED <<data, analysis, loaded, file, scan, call, patching, shared>>

\* "if path.stat().st_size > policy.get_max_file_size(): raise PolicyError"
\* in the torch, sklearn and onnx loaders.
CheckSize ==
    /\ pc = "size"
    /\ call.loader # "tensorflow"
    /\ log' = Append(log, "stat")
    /\ IF ~ file.exists THEN Finish("FileNotFoundError")
       ELSE IF call.too_large THEN Finish("PolicyError")
       ELSE pc' = "signature" /\ UNCHANGED outcome
    /\ UNCHANGED <<data, analysis, loaded, file, scan, call, patching, shared>>

\* "if policy.requires_signatures(): _verify_signature(path, policy)"
VerifySignature ==
    /\ pc = "signature"
    /\ IF call.require_signatures
       THEN /\ log' = Append(log, "verify_signature")
            /\ IF SignatureRaises(call) THEN Finish("SignatureError")
               ELSE pc' = "scan" /\ UNCHANGED outcome
       ELSE pc' = "scan" /\ UNCHANGED <<log, outcome>>
    /\ UNCHANGED <<data, analysis, loaded, file, scan, call, patching, shared>>

\* "if policy.should_scan(): _scan_for_threats(path, policy)" in the torch,
\* sklearn and onnx loaders.
ScanForThreats ==
    /\ pc = "scan"
    /\ call.loader # "tensorflow"
    /\ IF call.scan_on_load
       THEN LET result == scan_file(file)
            IN  /\ scan' = result
                /\ log' = Append(log, "scan_file")
                /\ IF ScanRaises(call, result) THEN Finish("MaliciousModelError")
                   ELSE pc' = "load" /\ UNCHANGED outcome
       ELSE pc' = "load" /\ UNCHANGED <<scan, log, outcome>>
    /\ UNCHANGED <<data, analysis, loaded, file, call, patching, shared>>

\* The try block of safe_load and the first test of its except branch.
RestrictedStage ==
    /\ pc = "load"
    /\ call.loader \in {"torch", "sklearn"}
    /\ LET attempt == RestrictedAttempt(file)
       IN  /\ loaded' = attempt.result
           /\ log' = IF attempt.opened THEN Append(log, "restricted_load") ELSE log
           /\ IF attempt.result.status = "ok" THEN Finish("returned restricted")
              ELSE IF LoadFailureRaises(call) THEN Finish("MaliciousModelError")
              ELSE pc' = "fallback" /\ UNCHANGED outcome
    /\ UNCHANGED <<data, analysis, file, scan, call, patching, shared>>

\* The fallback of the except branch.  torch: "import torch" may fail, and
\* an exception of torch.load propagates; sklearn: any exception of the
\* fallback is raised as MaliciousModelError.
FallbackStage ==
    /\ pc = "fallback"
    /\ IF call.loader = "torch" /\ ~ call.torch_available
       THEN Finish("MaliciousModelError") /\ UNCHANGED log
       ELSE LET result == UnguardedAttempt(file)
            IN  /\ log' = Append(log, "unguarded_load")
                /\ IF result.status = "ok" THEN Finish("returned unguarded")
                   ELSE IF call.loader = "sklearn" THEN Finish("MaliciousModelError")
                   ELSE Finish(result.status)
    /\ UNCHANGED <<data, analysis, loaded, file, scan, call, patching, shared>>

\* tensorflow._check_file_size: the size of a file, the total size of a
\* directory, and PolicyError for a path that is neither.
CheckFileSize ==
    /\ pc = "size"
    /\ call.loader = "tensorflow"
    /\ log' = Append(log, "stat")
    /\ IF ~ file.exists THEN Finish("PolicyError")
       ELSE IF call.too_large THEN Finish("PolicyError")
       ELSE pc' = "signature" /\ UNCHANGED outcome
    /\ UNCHANGED <<data, analysis, loaded, file, scan, call, patching, shared>>

\* tensorflow._scan_for_threats: a path that is not a file is not scanned.
ScanFileForThreats ==
    /\ pc = "scan"
    /\ call.loader = "tensorflow"
    /\ IF call.scan_on_load /\ file.exists /\ file.is_file
       THEN LET result == scan_file(file)
            IN  /\ scan' = result
                /\ log' = Append(log, "scan_file")
                /\ IF ScanRaises(call, result) THEN Finish("MaliciousModelError")
                   ELSE pc' = "load" /\ UNCHANGED outcome
       ELSE pc' = "load" /\ UNCHANGED <<scan, log, outcome>>
    /\ UNCHANGED <<data, analysis, loaded, file, call, patching, shared>>

\* The try block of the tensorflow and onnx loaders: the import of the
\* framework (torch_available stands for the framework of the loader), then
\* tf.keras.models.load_model or onnx.load with onnx.checker.check_model,
\* which return or raise; the exception is raised as MaliciousModelError
\* when the policy enforces and re-raised otherwise.
FrameworkStage ==
    /\ pc = "load"
    /\ call.loader \in {"tensorflow", "onnx"}
    /\ IF ~ call.torch_available
       THEN Finish("MaliciousModelError") /\ UNCHANGED log
       ELSE /\ log' = Append(log, "framework_load")
            /\ \E raises \in BOOLEAN :
                  IF ~ raises THEN Finish("returned framework")
                  ELSE IF call.enforce THEN Finish("MaliciousModelError")
                  ELSE Finish("FrameworkError")
    /\ UNCHANGED <<data, analysis, loaded, file, scan, call, patching, shared>>

---------------------------------------------------------------------------
(* Inputs                                                                  *)

S_builtins     == <<"b","u","i","l","t","i","n","s">>
S_collections  == <<"c","o","l","l","e","c","t","i","o","n","s">>
S_numpy        == <<"n","u","m","p","y">>
S_numpy_evil   == <<"n","u","m","p","y","_","e","v","i","l">>
S_torch        == <<"t","o","r","c","h">>
S_torchx       == <<"t","o","r","c","h","x">>
S_torch_nn     == <<"t","o","r","c","h",".","n","n">>
S_os           == <<"o","s">>
S_evil_        == <<"e","v","i","l","_">>
S_x            == <<"x">>
S_sklearn_base ==
    <<"s","k","l","e","a","r","n",".","l","i","n","e","a","r","_",
      "m","o","d","e","l",".","_","b","a","s","e">>
S_joblib_numpy_pickle ==
    <<"j","o","b","l","i","b",".","n","u","m","p","y","_",
      "p","i","c","k","l","e">>

S_eval     == <<"e","v","a","l">>
S_system   == <<"s","y","s","t","e","m">>
S_Size     == <<"S","i","z","e">>
S_size     == <<"s","i","z","e">>
S_run      == <<"r","u","n">>
S_list     == <<"l","i","s","t">>
S_ndarray  == <<"n","d","a","r","r","a","y">>
S_Module   == <<"M","o","d","u","l","e">>
S_LinearRegression ==
    <<"L","i","n","e","a","r","R","e","g","r","e","s","s","i","o","n">>

Op(name)             == Item(name, <<>>, <<>>, 0)
ShortBinUnicode(s)   == Item("SHORT_BINUNICODE", s, <<>>, 0)
BinUnicode(s)        == Item("BINUNICODE", s, <<>>, 0)
Global(module, name) == Item("GLOBAL", module, name, 0)
Inst(module, name)   == Item("INST", module, name, 0)
BinGet(n)            == Item("BINGET", <<>>, <<>>, n)
Ext(name, code)      == Item(name, <<>>, <<>>, code)

\* Every sequence of at most n opcodes of alphabet.
Bodies(alphabet, n) == UNION { [1..k -> alphabet] : k \in 0..n }

\* The same, each followed by STOP.
Streams(alphabet, n) ==
    { body \o <<Op("STOP")>> : body \in Bodies(alphabet, n) }

\* Streams exercising the operand stack: tracked and untracked string
\* pushes, memo store and recall, POP, and both import opcodes.
MaxOps == 4

StackAlphabet ==
    { ShortBinUnicode(S_builtins), ShortBinUnicode(S_eval),
      ShortBinUnicode(S_os), BinUnicode(S_system),
      Op("MEMOIZE"), BinGet(0), Op("POP"), Op("STACK_GLOBAL"),
      Global(S_os, S_system), Global(S_builtins, S_eval) }

\* Streams importing one qualified name, in either import form.
GateModules ==
    { S_torch, S_torchx, S_torch_nn, S_numpy, S_numpy_evil, S_collections,
      S_builtins, S_os, S_evil_, S_x, S_sklearn_base, S_joblib_numpy_pickle }

GateSymbols ==
    { S_Size, S_size, S_system, S_eval, S_run, S_list, S_ndarray, S_Module,
      S_LinearRegression }

DirectImport(module, name) == <<Global(module, name), Op("STOP")>>

StackImport(module, name) ==
    <<ShortBinUnicode(module), ShortBinUnicode(name), Op("STACK_GLOBAL"),
      Op("STOP")>>

ImportStreams ==
    { DirectImport(module, name) : module \in GateModules, name \in GateSymbols }
    \cup
    { StackImport(module, name) : module \in GateModules, name \in GateSymbols }

\* Streams mixing extension-registry opcodes with allowed and disallowed
\* imports and calls, terminated or cut before STOP.
MaxDangerOps == 4

DangerAlphabet ==
    { Ext("EXT1", 1), Ext("EXT2", 1), Ext("EXT4", 1),
      Global(S_os, S_system), ShortBinUnicode(S_torch), ShortBinUnicode(S_Size),
      Op("STACK_GLOBAL"), Op("EMPTY_TUPLE"), Op("REDUCE") }

DangerStreams ==
    Streams(DangerAlphabet, MaxDangerOps) \cup Bodies(DangerAlphabet, MaxDangerOps)

\* Archives of at most MaxMembers members with distinct file names.
MaxMembers == 2

S_data_pkl    == <<"a","r","c","h","i","v","e","/","d","a","t","a",".","p","k","l">>
S_data_pickle == <<"a","r","c","h","i","v","e","/","d","a","t","a",".","p","i","c","k","l","e">>
S_version     == <<"a","r","c","h","i","v","e","/","v","e","r","s","i","o","n">>

MemberNames == { S_data_pkl, S_data_pickle, S_version }

SafeStream      == <<Item("PROTO", <<>>, <<>>, 4), Op("NONE"), Op("STOP")>>
MaliciousStream ==
    <<Item("PROTO", <<>>, <<>>, 4), Global(S_os, S_system), Op("EMPTY_TUPLE"),
      Op("REDUCE"), Op("STOP")>>
ExtStream       == <<Item("PROTO", <<>>, <<>>, 4), Ext("EXT1", 1), Op("STOP")>>
TruncatedStream == <<Item("PROTO", <<>>, <<>>, 4), Op("NONE")>>
\* builtins.eval: listed unsafe by the analyzer
EvalStream      ==
    <<Item("PROTO", <<>>, <<>>, 4), Global(S_builtins, S_eval), Op("STOP")>>
\* a SAFE_CLASSES entry outside the modules of the restricted unpickler
SklearnStream   ==
    <<Item("PROTO", <<>>, <<>>, 4), ShortBinUnicode(S_sklearn_base),
      ShortBinUnicode(S_LinearRegression), Op("STACK_GLOBAL"), Op("STOP")>>

MemberStreams == { SafeStream, MaliciousStream, ExtStream, TruncatedStream }

Archives ==
    { members \in UNION { [1..k -> [filename : MemberNames, stream : MemberStreams]] :
                            k \in 0..MaxMembers } :
        \A i, j \in 1..Len(members) :
            members[i].filename = members[j].filename => i = j }

ZipFiles ==
    { File(TRUE, TRUE, suffix, TRUE, "zip", <<>>, members, TRUE) :
        suffix \in {".pth", ".PTH", ".pt", ".onnx"}, members \in Archives }

\* The files and calls of the safe_load pipeline.
LoadFiles ==
    { File(exists, TRUE, suffix, readable, "stream", stream, <<>>, TRUE) :
        exists \in BOOLEAN, suffix \in {".pkl", ".joblib"}, readable \in BOOLEAN,
        stream \in { SafeStream, MaliciousStream, TruncatedStream, EvalStream,
                     SklearnStream } }

Calls ==
    { Call(loader, enforce, scan_on_load, require_signatures, too_large,
           signature, torch_available) :
        loader \in {"torch", "sklearn"}, enforce \in BOOLEAN,
        scan_on_load \in BOOLEAN, require_signatures \in BOOLEAN,
        too_large \in BOOLEAN,
        signature \in {"missing", "unverified", "untrusted", "trusted"},
        torch_available \in BOOLEAN }

---------------------------------------------------------------------------
(* Operations on a stream and on a file                                    *)

Done(r) == "none" \notin DOMAIN r

\* The attributes patched() replaces, by the module that owns each.
Attributes ==
    {"torch.load", "joblib.load", "tf.keras.models.load_model", "onnx.load"}

\* No context is open and every attribute is the framework's own loader.
Unpatched ==
    /\ loaders = [a \in Attributes |-> "original"]
    /\ sys_modules = {}
    /\ contexts = <<>>
    /\ last_exit = NoResult

\* No concurrent load is running.
NoThreads ==
    /\ Unpickler = "Unpickler"
    /\ threads = <<>>

NoFile == File(FALSE, FALSE, "", FALSE, "other", <<>>, <<>>, TRUE)

NoCall == Call("", FALSE, FALSE, FALSE, FALSE, "", FALSE)

\* An analysis that unpickles the bytes to inspect them.
Analyze_ByLoading ==
    /\ ~ Done(analysis)
    /\ analysis' = analyze_pickle_opcodes(data)
    /\ loaded' = PickleLoad(data)
    /\ UNCHANGED <<data, file, scan, call, pc, log, outcome, patching, shared>>

\* analyze_pickle_opcodes(data)
Analyze ==
    /\ ~ Done(analysis)
    /\ analysis' = analyze_pickle_opcodes(data)
    /\ UNCHANGED <<data, loaded, file, scan, call, pc, log, outcome, patching, shared>>

\* RestrictedUnpickler(f).load() on the same bytes
Load ==
    /\ ~ Done(loaded)
    /\ loaded' = RestrictedLoad(data)
    /\ UNCHANGED <<data, analysis, file, scan, call, pc, log, outcome, patching, shared>>

\* ModelScanner().scan_file(path)
ScanFile ==
    /\ ~ Done(scan)
    /\ scan' = IF ScanFileRaises(file) THEN [raised |-> "PermissionError"]
               ELSE scan_file(file)
    /\ UNCHANGED <<data, analysis, loaded, file, call, pc, log, outcome, patching, shared>>

Next == Analyze \/ Load

InitStream(S) ==
    /\ data \in S
    /\ analysis = NoResult
    /\ Unpatched
    /\ NoThreads
    /\ loaded = NoResult
    /\ file = NoFile
    /\ scan = NoResult
    /\ call = NoCall
    /\ pc = "idle"
    /\ log = <<>>
    /\ outcome = "none"

Init == InitStream(Streams(StackAlphabet, MaxOps))

Spec == Init /\ [][Next]_vars

InitGate == InitStream(ImportStreams)

SpecGate == InitGate /\ [][Next]_vars

InitDanger == InitStream(DangerStreams)

SpecDanger == InitDanger /\ [][Next]_vars

\* scan_file on an archive
InitZip ==
    /\ file \in ZipFiles
    /\ scan = NoResult
    /\ data = <<>>
    /\ analysis = NoResult
    /\ Unpatched
    /\ NoThreads
    /\ loaded = NoResult
    /\ call = NoCall
    /\ pc = "idle"
    /\ log = <<>>
    /\ outcome = "none"

NextZip == ScanFile

SpecZip == InitZip /\ [][NextZip]_vars

\* one safe_load call
InitLoad ==
    /\ file \in LoadFiles
    /\ call \in Calls
    /\ pc = "size"
    /\ log = <<>>
    /\ outcome = "none"
    /\ scan = NoResult
    /\ loaded = NoResult
    /\ data = <<>>
    /\ analysis = NoResult
    /\ Unpatched
    /\ NoThreads

NextLoad ==
    \/ CheckSize
    \/ VerifySignature
    \/ ScanForThreats
    \/ RestrictedStage
    \/ FallbackStage

SpecLoad == InitLoad /\ [][NextLoad]_vars

---------------------------------------------------------------------------
(* Malformed buffers                                                       *)

MaxMalformedOps == 3

MalformedAlphabet ==
    { Item("PROTO", <<>>, <<>>, 4), ShortBinUnicode(S_os),
      Global(S_os, S_system), Op("STOP"), Op("UNKNOWN"), Op("CUT") }

\* Every buffer over the alphabet, the empty one included.  An argument
\* that is cut short is cut by the end of the data, so "CUT" comes last.
MalformedStreams ==
    { s \in Bodies(MalformedAlphabet, MaxMalformedOps) :
        \A i \in 1..Len(s) : s[i].name = "CUT" => i = Len(s) }

InitMalformed == InitStream(MalformedStreams)

SpecMalformed == InitMalformed /\ [][Next]_vars

---------------------------------------------------------------------------
(* scan_file over paths and file-system states                             *)

\* An unknown opcode byte after a protocol header.
GarbageStream == <<Item("PROTO", <<>>, <<>>, 4), Op("UNKNOWN"), Op("STOP")>>

\* A missing path, a directory, and regular files of every supported kind
\* and of an unsupported one: readable or not, reachable or not, holding a
\* pickle stream (sound, malicious, without STOP, undecodable, empty), an
\* archive, a corrupted archive, or other bytes.
ScanFiles ==
    { File(FALSE, FALSE, ".pkl", FALSE, "other", <<>>, <<>>, TRUE),
      File(TRUE, FALSE, ".pkl", FALSE, "other", <<>>, <<>>, TRUE),
      File(TRUE, FALSE, "", FALSE, "other", <<>>, <<>>, TRUE) }
    \cup
    { File(TRUE, TRUE, suffix, readable, "stream", stream, <<>>, searchable) :
        suffix \in {".pkl", ".PKL", ".joblib", ".txt", ".onnx", ".h5", ".pb"},
        readable \in BOOLEAN, searchable \in BOOLEAN,
        stream \in { SafeStream, MaliciousStream, TruncatedStream,
                     GarbageStream, <<>> } }
    \cup
    { File(TRUE, TRUE, suffix, readable, format, <<>>, members, TRUE) :
        suffix \in {".pth", ".pkl", ".txt"}, readable \in BOOLEAN,
        format \in {"zip", "corrupt_zip", "other"},
        members \in { <<>>, <<Member(S_data_pkl, MaliciousStream)>> } }

InitScan ==
    /\ file \in ScanFiles
    /\ scan = NoResult
    /\ data = <<>>
    /\ analysis = NoResult
    /\ Unpatched
    /\ NoThreads
    /\ loaded = NoResult
    /\ call = NoCall
    /\ pc = "idle"
    /\ log = <<>>
    /\ outcome = "none"

SpecScan == InitScan /\ [][NextZip]_vars

---------------------------------------------------------------------------
(* safe_load and scan_file on a truncated stream and on a shell import      *)

\* A protocol header and a string opcode whose argument is cut short.
CutStream == <<Item("PROTO", <<>>, <<>>, 4), Op("CUT")>>

\* The same after a complete opcode.
CutLateStream ==
    <<Item("PROTO", <<>>, <<>>, 4), ShortBinUnicode(S_os), Op("CUT")>>

\* GLOBAL 'os system' alone, after other opcodes, and called.
ShellStreams ==
    { <<Item("PROTO", <<>>, <<>>, 4), Global(S_os, S_system), Op("STOP")>>,
      <<Item("PROTO", <<>>, <<>>, 4), ShortBinUnicode(S_x), Op("NONE"),
        Global(S_os, S_system), Op("STOP")>>,
      <<Item("PROTO", <<>>, <<>>, 2), Global(S_os, S_system),
        ShortBinUnicode(S_x), Op("TUPLE1"), Op("REDUCE"), Op("STOP")>>,
      MaliciousStream }

ScenarioFiles ==
    { File(TRUE, TRUE, suffix, TRUE, "stream", stream, <<>>, TRUE) :
        suffix \in {".pkl", ".pth"},
        stream \in {CutStream, CutLateStream} \cup ShellStreams }

InitScenario ==
    /\ file \in ScenarioFiles
    /\ call \in Calls
    /\ pc = "size"
    /\ log = <<>>
    /\ outcome = "none"
    /\ scan = NoResult
    /\ loaded = NoResult
    /\ data = <<>>
    /\ analysis = NoResult
    /\ Unpatched
    /\ NoThreads

SpecScenario == InitScenario /\ [][NextLoad]_vars

---------------------------------------------------------------------------
(* safe_load of the four loaders                                           *)

AllCalls ==
    { Call(loader, enforce, scan_on_load, require_signatures, too_large,
           signature, torch_available) :
        loader \in {"torch", "sklearn", "tensorflow", "onnx"},
        enforce \in BOOLEAN, scan_on_load \in BOOLEAN,
        require_signatures \in BOOLEAN, too_large \in BOOLEAN,
        signature \in {"missing", "trusted"}, torch_available \in BOOLEAN }

\* A file with a pickle stream, a file of another format, a directory
\* (a SavedModel) and a missing path.
SizeFiles ==
    { File(TRUE, TRUE, suffix, TRUE, "stream", stream, <<>>, TRUE) :
        suffix \in {".pkl", ".h5", ".onnx"},
        stream \in {SafeStream, MaliciousStream} }
    \cup
    { File(TRUE, TRUE, ".h5", TRUE, "other", <<>>, <<>>, TRUE),
      File(TRUE, FALSE, "", FALSE, "other", <<>>, <<>>, TRUE),
      File(FALSE, FALSE, ".pkl", FALSE, "other", <<>>, <<>>, TRUE) }

InitSize ==
    /\ file \in SizeFiles
    /\ call \in AllCalls
    /\ pc = "size"
    /\ log = <<>>
    /\ outcome = "none"
    /\ scan = NoResult
    /\ loaded = NoResult
    /\ data = <<>>
    /\ analysis = NoResult
    /\ Unpatched
    /\ NoThreads

NextAll ==
    \/ CheckSize
    \/ CheckFileSize
    \/ VerifySignature
    \/ ScanForThreats
    \/ ScanFileForThreats
    \/ RestrictedStage
    \/ FallbackStage
    \/ FrameworkStage

SpecSize == InitSize /\ [][NextAll]_vars

---------------------------------------------------------------------------
(* patched(), context.py                                                   *)

MaxNesting == 3

\* The set-up of patched() in source order: one step per "if ... in
\* sys.modules" block.  The pickle block patches nothing.
PatchSteps == <<"torch", "joblib", "pickle", "tensorflow", "onnx">>

AttributeOf(module) ==
    CASE module = "torch"      -> "torch.load"
      [] module = "joblib"     -> "joblib.load"
      [] module = "tensorflow" -> "tf.keras.models.load_model"
      [] module = "onnx"       -> "onnx.load"

Frameworks == {"torch", "joblib", "tensorflow", "onnx"}

\* "'pickle' in sys.modules" holds in every interpreter that runs patched().
InSysModules(module) == module = "pickle" \/ module \in sys_modules

Top == contexts[Len(contexts)]

\* The generator frame of one patched() call: original_loaders, the step of
\* the set-up it is at, and the attribute values at its entry.
Frame(original_loaders, at, state, before) ==
    [original_loaders |-> original_loaders, at |-> at, state |-> state,
     before |-> before]

\* The finally block that leaves onnx.load as it is.
Restore_NotOnnx(current, original_loaders) ==
    [a \in Attributes |->
        IF a \in DOMAIN original_loaders /\ a # "onnx.load"
        THEN original_loaders[a] ELSE current[a]]

\* The finally block: every attribute recorded in original_loaders is set
\* back to the recorded value.
Restore(current, original_loaders) ==
    [a \in Attributes |->
        IF a \in DOMAIN original_loaders THEN original_loaders[a]
        ELSE current[a]]

\* The generator leaves through its finally block.
Leave(how) ==
    /\ loaders' = Restore(loaders, Top.original_loaders)
    /\ contexts' = SubSeq(contexts, 1, Len(contexts) - 1)
    /\ last_exit' = [how      |-> how,
                     replaced |-> DOMAIN Top.original_loaders,
                     before   |-> Top.before]

\* The thread is running code outside patched() or the body of the
\* innermost context.
CodeRuns == IF contexts = <<>> THEN TRUE ELSE Top.state = "body"

Untouched ==
    UNCHANGED <<data, analysis, loaded, file, scan, call, pc, log, outcome,
                shared>>

\* Code outside patched(), or the body of the innermost context, imports a
\* framework.
Import(module) ==
    /\ module \notin sys_modules
    /\ CodeRuns
    /\ sys_modules' = sys_modules \cup {module}
    /\ last_exit' = NoResult
    /\ UNCHANGED <<loaders, contexts>>
    /\ Untouched

\* "with patched():" is entered: original_loaders = {}.
Enter ==
    /\ Len(contexts) < MaxNesting
    /\ CodeRuns
    /\ contexts' = Append(contexts,
                          Frame([a \in {} |-> "original"], 1, "setup", loaders))
    /\ last_exit' = NoResult
    /\ UNCHANGED <<loaders, sys_modules>>
    /\ Untouched

\* One block of the set-up.  A framework in sys.modules has its attribute
\* recorded and replaced by the safe loader; tensorflow only if
\* tf.keras.models has load_model.  The pickle block imports
\* loaders/sklearn.py, which imports joblib.
Patch ==
    /\ contexts # <<>>
    /\ Top.state = "setup"
    /\ Top.at <= Len(PatchSteps)
    /\ LET module == PatchSteps[Top.at]
           next   == [Top EXCEPT !.at = @ + 1]
       IN  \E has_attr \in IF module = "tensorflow" THEN BOOLEAN ELSE {TRUE} :
             IF module = "pickle"
             THEN /\ sys_modules' = sys_modules \cup {"joblib"}
                  /\ contexts' = [contexts EXCEPT ![Len(contexts)] = next]
                  /\ UNCHANGED loaders
             ELSE IF InSysModules(module) /\ has_attr
             THEN LET a == AttributeOf(module)
                  IN  /\ loaders' = [loaders EXCEPT ![a] = "safe_load"]
                      /\ contexts' = [contexts EXCEPT ![Len(contexts)] =
                            [next EXCEPT !.original_loaders = @ @@ (a :> loaders[a])]]
                      /\ UNCHANGED sys_modules
             ELSE /\ contexts' = [contexts EXCEPT ![Len(contexts)] = next]
                  /\ UNCHANGED <<loaders, sys_modules>>
    /\ last_exit' = NoResult
    /\ Untouched

\* An import inside a block of the set-up raises (a loader module or a
\* framework that fails to import, tf.keras missing): the finally block runs
\* and the exception leaves "with patched()" before the body is entered.
SetupRaises ==
    /\ contexts # <<>>
    /\ Top.state = "setup"
    /\ Top.at <= Len(PatchSteps)
    /\ InSysModules(PatchSteps[Top.at])
    /\ Leave("setup raised")
    /\ UNCHANGED sys_modules
    /\ Untouched

\* "yield": the body of the with statement starts.
Yield ==
    /\ contexts # <<>>
    /\ Top.state = "setup"
    /\ Top.at > Len(PatchSteps)
    /\ contexts' = [contexts EXCEPT ![Len(contexts)] = [Top EXCEPT !.state = "body"]]
    /\ last_exit' = NoResult
    /\ UNCHANGED <<loaders, sys_modules>>
    /\ Untouched

\* The body of the innermost context ends normally.
BodyReturns ==
    /\ contexts # <<>>
    /\ Top.state = "body"
    /\ Leave("body returned")
    /\ UNCHANGED sys_modules
    /\ Untouched

\* The body of the innermost context raises.
BodyRaises ==
    /\ contexts # <<>>
    /\ Top.state = "body"
    /\ Leave("body raised")
    /\ UNCHANGED sys_modules
    /\ Untouched

InitPatched ==
    /\ loaders = [a \in Attributes |-> "original"]
    /\ sys_modules \in SUBSET Frameworks
    /\ contexts = <<>>
    /\ last_exit = NoResult
    /\ NoThreads
    /\ data = <<>>
    /\ analysis = NoResult
    /\ loaded = NoResult
    /\ file = NoFile
    /\ scan = NoResult
    /\ call = NoCall
    /\ pc = "idle"
    /\ log = <<>>
    /\ outcome = "none"

NextPatched ==
    \/ \E module \in Frameworks : Import(module)
    \/ Enter
    \/ Patch
    \/ SetupRaises
    \/ Yield
    \/ BodyReturns
    \/ BodyRaises

SpecPatched == InitPatched /\ [][NextPatched]_vars

---------------------------------------------------------------------------
(* Concurrent safe_load calls, loaders/sklearn.py                          *)

MaxThreads == 2

Threads == 1..MaxThreads

\* One safe_load call at its load stage: the kind of file (".joblib" goes
\* through _safe_joblib_load, ".pkl" through RestrictedUnpickler(f).load()),
\* the stream in the file, the local original_unpickler, the class the
\* deserialization ran with and how it ended.
Thread(suffix, stream) ==
    [pc |-> IF suffix = ".joblib" THEN "save" ELSE "open",
     suffix |-> suffix, stream |-> stream,
     original_unpickler |-> "", used |-> "", status |-> ""]

Others ==
    UNCHANGED <<data, analysis, loaded, file, scan, call, pc, log, outcome,
                patching>>

\* "original_unpickler = joblib.numpy_pickle.Unpickler"
SaveUnpickler(t) ==
    /\ threads[t].pc = "save"
    /\ threads' = [threads EXCEPT ![t].original_unpickler = Unpickler,
                                  ![t].pc = "install"]
    /\ UNCHANGED Unpickler
    /\ Others

\* "joblib.numpy_pickle.Unpickler = RestrictedUnpickler"
InstallUnpickler(t) ==
    /\ threads[t].pc = "install"
    /\ Unpickler' = "RestrictedUnpickler"
    /\ threads' = [threads EXCEPT ![t].pc = "load"]
    /\ Others

\* "return joblib.load(path)": the stream is unpickled with the class that
\* joblib.numpy_pickle.Unpickler is bound to at that moment.
JoblibLoad(t) ==
    /\ threads[t].pc = "load"
    /\ threads' = [threads EXCEPT
          ![t].used = Unpickler,
          ![t].status = UnpicklerLoad(threads[t].stream,
                                      Unpickler = "RestrictedUnpickler").status,
          ![t].pc = "restore"]
    /\ UNCHANGED Unpickler
    /\ Others

\* "finally: joblib.numpy_pickle.Unpickler = original_unpickler"
RestoreUnpickler(t) ==
    /\ threads[t].pc = "restore"
    /\ Unpickler' = threads[t].original_unpickler
    /\ threads' = [threads EXCEPT ![t].pc = "done"]
    /\ Others

\* "unpickler = RestrictedUnpickler(f); return unpickler.load()" on a file
\* that is not a .joblib file: nothing shared is read or written.
PickleFileLoad(t) ==
    /\ threads[t].pc = "open"
    /\ threads' = [threads EXCEPT
          ![t].used = "RestrictedUnpickler",
          ![t].status = RestrictedLoad(threads[t].stream).status,
          ![t].pc = "done"]
    /\ UNCHANGED Unpickler
    /\ Others

InitThreads ==
    /\ Unpickler = "Unpickler"
    /\ threads \in [Threads -> { Thread(suffix, stream) :
                                   suffix \in {".joblib", ".pkl"},
                                   stream \in {SafeStream, MaliciousStream,
                                               SklearnStream} }]
    /\ Unpatched
    /\ data = <<>>
    /\ analysis = NoResult
    /\ loaded = NoResult
    /\ file = NoFile
    /\ scan = NoResult
    /\ call = NoCall
    /\ pc = "idle"
    /\ log = <<>>
    /\ outcome = "none"

NextThreads ==
    \E t \in Threads :
        \/ SaveUnpickler(t)
        \/ InstallUnpickler(t)
        \/ JoblibLoad(t)
        \/ RestoreUnpickler(t)
        \/ PickleFileLoad(t)

SpecThreads == InitThreads /\ [][NextThreads]_vars

---------------------------------------------------------------------------
(* pickle.dump of an object, then safe_load of the file                    *)

MaxInt == 1

MaxItems == 2

\* An object before it is pickled: its type, its text (the characters of a
\* str, the digits of an int, the qualified name of the class of an
\* object) and its contents.
PlainValue(kind, text, items) == [kind |-> kind, text |-> text, items |-> items]

\* None, small ints and a str
Atoms ==
    {PlainValue("none", <<>>, <<>>), PlainValue("str", <<"w">>, <<>>)}
    \cup { PlainValue("int", Decimal(n), <<>>) : n \in 0..MaxInt }

Keys == <<PlainValue("str", <<"a">>, <<>>), PlainValue("str", <<"b">>, <<>>)>>

\* The contents of a dict of at most n keys, in insertion order, with values
\* of S.
DictItems(S, n) ==
    UNION { { [i \in 1..(2 * k) |-> IF i % 2 = 1 THEN Keys[(i + 1) \div 2] ELSE vs[i \div 2]] : vs \in [1..k -> S] } : k \in 0..(IF n < Len(Keys) THEN n ELSE Len(Keys)) }

\* Classes an object may be an instance of, as (module, name): two that
\* RestrictedUnpickler.find_class resolves and one that it refuses.
S_OrderedDict == <<"O","r","d","e","r","e","d","D","i","c","t">>

Classes ==
    { <<S_collections, S_OrderedDict>>,
      <<S_torch_nn, S_Module>>,
      <<S_sklearn_base, S_LinearRegression>> }

ClassOf(v) == CHOOSE c \in Classes : Dotted(c[1], c[2]) = v.text

Containers(S, n) ==
    { PlainValue(kind, <<>>, items) : kind \in {"list", "tuple"}, items \in Bodies(S, n) }
    \cup { PlainValue("dict", <<>>, items) : items \in DictItems(S, n) }

Instances(S, n) ==
    { PlainValue("object", Dotted(c[1], c[2]), items) : c \in Classes, items \in Bodies(S, n) }

\* The objects pickled: atoms, containers of atoms, instances built from at
\* most one atom, and containers of one of these.
RoundTripObjects ==
    LET flat == Atoms \cup Containers(Atoms, MaxItems) \cup Instances(Atoms, 1)
    IN  flat \cup Containers(flat, 1) \cup Instances(Containers(Atoms, 1), 1)

IntOf(text) == CHOOSE n \in 0..255 : Decimal(n) = text

Memoize == Op("MEMOIZE")

\* pickle.dumps(obj, protocol=4) without the header and STOP: save() of the
\* pickler, which memoizes every str, container and instance it writes.
RECURSIVE Save(_)
RECURSIVE SaveAll(_)
Save(v) ==
    LET k == Len(v.items)
    IN
    CASE v.kind = "none" -> <<Op("NONE")>>
      [] v.kind = "int"  -> <<Item("BININT1", <<>>, <<>>, IntOf(v.text))>>
      [] v.kind = "str"  -> <<ShortBinUnicode(v.text), Memoize>>
      [] v.kind = "tuple" ->
            IF k = 0 THEN <<Op("EMPTY_TUPLE")>>
            ELSE SaveAll(v.items) \o <<Op(<<"TUPLE1", "TUPLE2", "TUPLE3">>[k]), Memoize>>
      [] v.kind = "list" ->
            <<Op("EMPTY_LIST"), Memoize>> \o
            (IF k = 0 THEN <<>>
             ELSE IF k = 1 THEN SaveAll(v.items) \o <<Op("APPEND")>>
             ELSE <<Op("MARK")>> \o SaveAll(v.items) \o <<Op("APPENDS")>>)
      [] v.kind = "dict" ->
            <<Op("EMPTY_DICT"), Memoize>> \o
            (IF k = 0 THEN <<>>
             ELSE IF k = 2 THEN SaveAll(v.items) \o <<Op("SETITEM")>>
             ELSE <<Op("MARK")>> \o SaveAll(v.items) \o <<Op("SETITEMS")>>)
      [] v.kind = "object" ->
            <<ShortBinUnicode(ClassOf(v)[1]), Memoize, ShortBinUnicode(ClassOf(v)[2]), Memoize, Op("STACK_GLOBAL"), Memoize>>
            \o Save(PlainValue("tuple", <<>>, v.items)) \o <<Op("REDUCE"), Memoize>>

SaveAll(items) ==
    IF items = <<>> THEN <<>> ELSE Save(Head(items)) \o SaveAll(Tail(items))

\* pickle.dumps(obj): the PROTO header, a FRAME when the body has at least
\* four bytes, the body, STOP.
Dumps(obj) ==
    LET body == Save(obj) \o <<Op("STOP")>>
    IN  <<Item("PROTO", <<>>, <<>>, 4)>>
        \o (IF StreamBytes(body) >= 4 THEN <<Item("FRAME", <<>>, <<>>, StreamBytes(body))>> ELSE <<>>)
        \o body

\* The policy load_policy() returns when no configuration file and no
\* environment variable is set: enforce off, scan_on_load on, no signatures
\* required; the pickled object is far below max_file_size_mb.
DefaultPolicy(loader, torch_available) == Call(loader, FALSE, TRUE, FALSE, FALSE, "missing", torch_available)

\* "pickle.dump(test_data, f)" of the round-trip tests: data holds test_data.
Dump ==
    /\ pc = "dump"
    /\ file' = [file EXCEPT !.exists = TRUE, !.is_file = TRUE, !.format = "stream", !.stream = Dumps(data)]
    /\ pc' = "size"
    /\ UNCHANGED <<data, analysis, loaded, scan, call, log, outcome, patching, shared>>

InitRoundTrip ==
    /\ data \in RoundTripObjects
    /\ file \in { File(FALSE, FALSE, suffix, TRUE, "other", <<>>, <<>>, TRUE) : suffix \in {".pkl", ".pth"} }
    /\ call \in { DefaultPolicy(loader, torch_available) : loader \in {"torch", "sklearn"}, torch_available \in BOOLEAN }
    /\ pc = "dump"
    /\ log = <<>>
    /\ outcome = "none"
    /\ scan = NoResult
    /\ loaded = NoResult
    /\ analysis = NoResult
    /\ Unpatched
    /\ NoThreads

NextRoundTrip ==
    \/ Dump
    \/ NextLoad

SpecRoundTrip == InitRoundTrip /\ [][NextRoundTrip]_vars

---------------------------------------------------------------------------
(* The two import forms of every name of SAFE_CLASSES                      *)

\* Index of the last "." of s, 0 when s has none.
LastDot(s) ==
    LET dots == { i \in 1..Len(s) : s[i] = "." }
    IN  IF dots = {} THEN 0 ELSE CHOOSE i \in dots : \A j \in dots : j <= i

\* full_name.rsplit(".", 1): the module and the name that a pickle of the
\* class writes.
ModuleOf(full_name) == SubSeq(full_name, 1, LastDot(full_name) - 1)

NameOf(full_name) == SubSeq(full_name, LastDot(full_name) + 1, Len(full_name))

\* The import of a class of SAFE_CLASSES as protocols 0 to 3 write it
\* (GLOBAL) and as protocol 4 writes it (STACK_GLOBAL).
SafeClassStreams ==
    { DirectImport(ModuleOf(c), NameOf(c)) : c \in SAFE_CLASSES }
    \cup { StackImport(ModuleOf(c), NameOf(c)) : c \in SAFE_CLASSES }

InitForms == InitStream(SafeClassStreams)

SpecForms == InitForms /\ [][Next]_vars

---------------------------------------------------------------------------
(* Scanning and executing the same payload                                 *)

\* os.system found through STACK_GLOBAL and called.
StackShellStream ==
    <<Item("PROTO", <<>>, <<>>, 4), ShortBinUnicode(S_os), ShortBinUnicode(S_system),
      Op("STACK_GLOBAL"), Op("EMPTY_TUPLE"), Op("REDUCE"), Op("STOP")>>

Payloads ==
    ShellStreams \cup {StackShellStream, SafeStream, EvalStream, SklearnStream, ExtStream, TruncatedStream, GarbageStream}

\* The payload as a pickle file, as a joblib file and inside a PyTorch
\* archive.
PayloadFiles(payload) ==
    { File(TRUE, TRUE, suffix, TRUE, "stream", payload, <<>>, TRUE) : suffix \in {".pkl", ".joblib"} }
    \cup { File(TRUE, TRUE, ".pth", TRUE, "zip", <<>>, <<Member(S_data_pickle, payload)>>, TRUE) }

\* pickle.loads(data): the payload executed.
Unpickle ==
    /\ ~ Done(loaded)
    /\ loaded' = PickleLoad(data)
    /\ UNCHANGED <<data, analysis, file, scan, call, pc, log, outcome, patching, shared>>

InitEffects ==
    /\ data \in Payloads
    /\ file \in PayloadFiles(data)
    /\ analysis = NoResult
    /\ scan = NoResult
    /\ loaded = NoResult
    /\ call = NoCall
    /\ pc = "idle"
    /\ log = <<>>
    /\ outcome = "none"
    /\ Unpatched
    /\ NoThreads

NextEffects ==
    \/ Analyze
    \/ ScanFile
    \/ Unpickle

SpecEffects == InitEffects /\ [][NextEffects]_vars

---------------------------------------------------------------------------
(* Repeated and concurrent calls of analyze_pickle_opcodes                 *)

\* The buffers analyzed: imports through GLOBAL and through STACK_GLOBAL,
\* and a buffer without STOP.
CallBuffers == {MaliciousStream, SklearnStream, TruncatedStream}

\* A thread outside analyze_pickle_opcodes.
Idle == [pc |-> "idle", buffer |-> <<>>, st |-> LoopInit, i |-> 0]

\* "ops = list(pickletools.genops(data))" and the locals set before it; a
\* buffer genops cannot decode returns from the except branch at once.
\* log is the set of (buffer, result) pairs returned so far.
CallAnalyze(t, buffer) ==
    /\ threads[t].pc = "idle"
    /\ IF GenopsRaises(buffer)
       THEN /\ log' = log \cup {[buffer |-> buffer, result |-> ParseErrorResult]}
            /\ UNCHANGED threads
       ELSE /\ threads' = [threads EXCEPT ![t] = [pc |-> "loop", buffer |-> buffer, st |-> LoopInit, i |-> 0]]
            /\ UNCHANGED log
    /\ UNCHANGED <<data, analysis, loaded, file, scan, call, pc, outcome, patching, Unpickler>>

\* One iteration of the loop over ops, on the locals of the call.
LoopStep(t) ==
    /\ threads[t].pc = "loop"
    /\ threads[t].i < Len(genops(threads[t].buffer))
    /\ threads' = [threads EXCEPT ![t].st = LoopBody(@, genops(threads[t].buffer)[threads[t].i + 1]),
                                  ![t].i = @ + 1]
    /\ UNCHANGED <<data, analysis, loaded, file, scan, call, pc, log, outcome, patching, Unpickler>>

\* The code after the loop and the return.
ReturnAnalysis(t) ==
    /\ threads[t].pc = "loop"
    /\ threads[t].i = Len(genops(threads[t].buffer))
    /\ log' = log \cup {[buffer |-> threads[t].buffer, result |-> Summary(threads[t].st, threads[t].i)]}
    /\ threads' = [threads EXCEPT ![t] = Idle]
    /\ UNCHANGED <<data, analysis, loaded, file, scan, call, pc, outcome, patching, Unpickler>>

InitCalls ==
    /\ threads = [t \in Threads |-> Idle]
    /\ log = {}
    /\ Unpickler = "Unpickler"
    /\ Unpatched
    /\ data = <<>>
    /\ analysis = NoResult
    /\ loaded = NoResult
    /\ file = NoFile
    /\ scan = NoResult
    /\ call = NoCall
    /\ pc = "idle"
    /\ outcome = "none"

NextCalls ==
    \/ \E t \in Threads, buffer \in CallBuffers : CallAnalyze(t, buffer)
    \/ \E t \in Threads : LoopStep(t)
    \/ \E t \in Threads : ReturnAnalysis(t)

SpecCalls == InitCalls /\ [][NextCalls]_vars

---------------------------------------------------------------------------
(* scan_file on HDF5, protobuf and ONNX files                              *)

InertSuffixes == {".h5", ".hdf5", ".pb", ".onnx"}

\* Regular files of the inert formats and of a pickle format, in lower and
\* upper case, readable or not, whose bytes are a pickle stream (sound,
\* malicious, without STOP, undecodable, empty), an archive with a
\* malicious member, or something else.
InertFiles ==
    { File(TRUE, TRUE, suffix, readable, "stream", stream, <<>>, TRUE) :
        suffix \in {".h5", ".H5", ".hdf5", ".HDF5", ".pb", ".Pb", ".onnx", ".ONNX", ".pkl"},
        readable \in BOOLEAN,
        stream \in {SafeStream, MaliciousStream, TruncatedStream, GarbageStream, <<>>} }
    \cup
    { File(TRUE, TRUE, suffix, readable, format, <<>>, members, TRUE) :
        suffix \in {".h5", ".H5", ".hdf5", ".HDF5", ".pb", ".Pb", ".onnx", ".ONNX", ".pkl"},
        readable \in BOOLEAN,
        format \in {"zip", "corrupt_zip", "other"},
        members \in {<<Member(S_data_pickle, MaliciousStream)>>} }

InitInert ==
    /\ file \in InertFiles
    /\ scan = NoResult
    /\ data = <<>>
    /\ analysis = NoResult
    /\ Unpatched
    /\ NoThreads
    /\ loaded = NoResult
    /\ call = NoCall
    /\ pc = "idle"
    /\ log = <<>>
    /\ outcome = "none"

SpecInert == InitInert /\ [][NextZip]_vars

---------------------------------------------------------------------------
(* A class named by INST and by GLOBAL                                     *)

\* MARK, an argument, INST module name: the class is found and called with
\* the argument.
InstCall(module, name) ==
    <<Op("MARK"), ShortBinUnicode(S_x), Inst(module, name), Op("STOP")>>

InstStreams ==
    { InstCall(module, name) : module \in GateModules, name \in GateSymbols }
    \cup { DirectImport(module, name) : module \in GateModules, name \in GateSymbols }

InitInst == InitStream(InstStreams)

SpecInst == InitInst /\ [][Next]_vars

---------------------------------------------------------------------------
(* Calls of a framework loader while patched() is open                     *)

\* The number of nested safe_load calls the interpreter's recursion limit
\* allows.
MaxDepth == 3

\* How far a safe_load call gets on the path it is given: the size check,
\* the signature check or the scan raises; or the restricted unpickler
\* returns the object (torch, and sklearn on a file that is not .joblib);
\* or it reaches its own call of the framework loader: torch.load in the
\* fallback of the torch loader, joblib.load in _safe_joblib_load,
\* tf.keras.models.load_model and onnx.load in their try blocks.
Stages(a) ==
    IF a \in {"torch.load", "joblib.load"} THEN {"raises", "returns", "calls"}
    ELSE {"raises", "calls"}

\* SafeLoadCall: the depth-th nested call of the safe_load that replaces
\* attribute a.  FrameworkCall: the expression "torch.load(...)",
\* "joblib.load(path)", "tf.keras.models.load_model(...)" or
\* "onnx.load(...)", which reads the attribute of the framework module when
\* it is evaluated.  entries counts the safe_load calls entered.
RECURSIVE SafeLoadCall(_, _, _)
RECURSIVE FrameworkCall(_, _, _)
SafeLoadCall(a, stage, depth) ==
    IF depth > MaxDepth
    THEN [entries |-> depth - 1, result |-> "RecursionError", original |-> FALSE]
    ELSE IF stage = "raises"
    THEN [entries |-> depth, result |-> "raised", original |-> FALSE]
    ELSE IF stage = "returns"
    THEN [entries |-> depth, result |-> "returned restricted", original |-> FALSE]
    ELSE FrameworkCall(a, stage, depth)

FrameworkCall(a, stage, depth) ==
    IF loaders[a] = "safe_load" THEN SafeLoadCall(a, stage, depth + 1)
    ELSE [entries |-> depth, result |-> "returned framework", original |-> TRUE]

\* Code outside patched(), or the body of the innermost context, calls a
\* framework loader on some path.  log holds the last such call.
CallEntryPoint(a) ==
    /\ CodeRuns
    /\ \E module \in sys_modules : AttributeOf(module) = a
    /\ \E stage \in Stages(a) :
          log' = <<[attribute |-> a, stage |-> stage, patched |-> loaders[a] = "safe_load",
                    call |-> FrameworkCall(a, stage, 0)]>>
    /\ UNCHANGED <<data, analysis, loaded, file, scan, call, pc, outcome, patching, shared>>

NextReentry ==
    \/ NextPatched
    \/ \E a \in Attributes : CallEntryPoint(a)

SpecReentry == InitPatched /\ [][NextReentry]_vars

---------------------------------------------------------------------------
(* The signature gate, core/signature.py and core/policy.py                *)

S_unknown == "unknown"

\* The identities that certificates carry.
Signers == {"alice@example.com", "mallory@example.com"}

\* What verify_signature reads: whether '<file>.sig' exists, whether the
\* sigstore package imports, whether verify_dsse accepts the bundle for the
\* bytes of the model, and the identity of the certificate in the bundle.
Signature(exists, sigstore, valid, signer) ==
    [exists |-> exists, sigstore |-> sigstore, valid |-> valid, signer |-> signer]

\* SignatureManager.has_signature
has_signature(sig) == sig.exists

\* SignatureManager._extract_signer_info: the bundle is not read.
_extract_signer_info(sig) == [identity |-> S_unknown, issuer |-> S_unknown]

\* SignatureManager.verify_signature
verify_signature(sig) ==
    IF ~ sig.sigstore THEN [verified |-> FALSE, signer |-> [identity |-> S_unknown]]
    ELSE IF ~ sig.exists THEN [verified |-> FALSE, signer |-> [identity |-> S_unknown]]
    ELSE IF ~ sig.valid THEN [verified |-> FALSE, signer |-> [identity |-> S_unknown]]
    ELSE [verified |-> TRUE, signer |-> _extract_signer_info(sig)]

\* Policy.is_signer_trusted
is_signer_trusted(trusted_signers, signer) ==
    IF trusted_signers = {} THEN TRUE
    ELSE signer \in trusted_signers

\* _verify_signature of the loaders: the test that raises SignatureError,
\* or "trusted" when none does.
_verify_signature(sig, trusted_signers) ==
    IF ~ has_signature(sig) THEN "missing"
    ELSE LET verification == verify_signature(sig)
         IN  IF ~ verification.verified THEN "unverified"
             ELSE IF ~ is_signer_trusted(trusted_signers, verification.signer.identity)
             THEN "untrusted"
             ELSE "trusted"

\* A call together with the signature file and the policy's trusted_signers
\* that its signature stage reads.
SignedCall(c, sig, trusted_signers) ==
    [loader |-> c.loader, enforce |-> c.enforce, scan_on_load |-> c.scan_on_load,
     require_signatures |-> c.require_signatures, too_large |-> c.too_large,
     signature |-> _verify_signature(sig, trusted_signers),
     torch_available |-> c.torch_available,
     sig |-> sig, trusted_signers |-> trusted_signers]

Signatures ==
    { Signature(exists, sigstore, valid, signer) :
        exists \in BOOLEAN, sigstore \in BOOLEAN, valid \in BOOLEAN,
        signer \in Signers }

SignedCalls ==
    { SignedCall(c, sig, trusted_signers) :
        c \in { k \in AllCalls : k.signature = "missing" /\ k.torch_available },
        sig \in Signatures, trusted_signers \in SUBSET Signers }

InitSignature ==
    /\ file \in SizeFiles
    /\ call \in SignedCalls
    /\ pc = "size"
    /\ log = <<>>
    /\ outcome = "none"
    /\ scan = NoResult
    /\ loaded = NoResult
    /\ data = <<>>
    /\ analysis = NoResult
    /\ Unpatched
    /\ NoThreads

SpecSignature == InitSignature /\ [][NextAll]_vars

---------------------------------------------------------------------------
(* patched() entered by several threads, context.py                        *)

\* The thread has no patched() context open.
Closed == Frame([a \in {} |-> "original"], 1, "closed", [a \in {} |-> "original"])

\* The module attributes are shared by the threads; original_loaders is a
\* local of each thread's generator.  contexts[t] is the frame of thread t.
ThreadUntouched ==
    UNCHANGED <<data, analysis, loaded, file, scan, call, pc, log, outcome,
                shared, last_exit>>

\* Thread t enters "with patched():".
ThreadEnter(t) ==
    /\ contexts[t].state = "closed"
    /\ contexts' = [contexts EXCEPT ![t] =
                      Frame([a \in {} |-> "original"], 1, "setup",
                            [a \in {} |-> "original"])]
    /\ UNCHANGED <<loaders, sys_modules>>
    /\ ThreadUntouched

\* One block of the set-up in thread t: the attribute as it is now is
\* recorded in the thread's original_loaders and replaced.
ThreadPatch(t) ==
    /\ contexts[t].state = "setup"
    /\ contexts[t].at <= Len(PatchSteps)
    /\ LET module == PatchSteps[contexts[t].at]
           next   == [contexts[t] EXCEPT !.at = @ + 1]
       IN  \E has_attr \in IF module = "tensorflow" THEN BOOLEAN ELSE {TRUE} :
             IF module = "pickle"
             THEN /\ sys_modules' = sys_modules \cup {"joblib"}
                  /\ contexts' = [contexts EXCEPT ![t] = next]
                  /\ UNCHANGED loaders
             ELSE IF InSysModules(module) /\ has_attr
             THEN LET a == AttributeOf(module)
                  IN  /\ loaders' = [loaders EXCEPT ![a] = "safe_load"]
                      /\ contexts' = [contexts EXCEPT ![t] =
                            [next EXCEPT !.original_loaders = @ @@ (a :> loaders[a])]]
                      /\ UNCHANGED sys_modules
             ELSE /\ contexts' = [contexts EXCEPT ![t] = next]
                  /\ UNCHANGED <<loaders, sys_modules>>
    /\ ThreadUntouched

\* "yield" in thread t.
ThreadYield(t) ==
    /\ contexts[t].state = "setup"
    /\ contexts[t].at > Len(PatchSteps)
    /\ contexts' = [contexts EXCEPT ![t] = [@ EXCEPT !.state = "body"]]
    /\ UNCHANGED <<loaders, sys_modules>>
    /\ ThreadUntouched

\* The body of thread t's with statement returns or raises, or a block of
\* its set-up raises: the finally block assigns the values recorded in the
\* thread's original_loaders.
ThreadExit(t) ==
    /\ \/ contexts[t].state = "body"
       \/ /\ contexts[t].state = "setup"
          /\ contexts[t].at <= Len(PatchSteps)
          /\ InSysModules(PatchSteps[contexts[t].at])
    /\ loaders' = Restore(loaders, contexts[t].original_loaders)
    /\ contexts' = [contexts EXCEPT ![t] = Closed]
    /\ UNCHANGED sys_modules
    /\ ThreadUntouched

InitOverlap ==
    /\ loaders = [a \in Attributes |-> "original"]
    /\ sys_modules \in SUBSET Frameworks
    /\ contexts = [t \in Threads |-> Closed]
    /\ last_exit = NoResult
    /\ NoThreads
    /\ data = <<>>
    /\ analysis = NoResult
    /\ loaded = NoResult
    /\ file = NoFile
    /\ scan = NoResult
    /\ call = NoCall
    /\ pc = "idle"
    /\ log = <<>>
    /\ outcome = "none"

NextOverlap ==
    \E t \in Threads :
        \/ ThreadEnter(t)
        \/ ThreadPatch(t)
        \/ ThreadYield(t)
        \/ ThreadExit(t)

SpecOverlap == InitOverlap /\ [][NextOverlap]_vars

---------------------------------------------------------------------------
(* The path between the stages of safe_load                                *)

\* The contents the path can have.
RewriteFiles ==
    { File(TRUE, TRUE, ".pkl", TRUE, "stream", stream, <<>>, TRUE) :
        stream \in {SafeStream, SklearnStream, MaliciousStream, EvalStream} }

RewriteCalls ==
    { c \in Calls : /\ c.scan_on_load /\ ~ c.require_signatures /\ ~ c.too_large
                    /\ c.signature = "trusted" /\ c.torch_available }

\* safe_load holds no handle on the file between its stages: path.stat(),
\* scan_file(path) and path.open('rb') each go through the path, and the
\* scan has closed its handle when the load opens its own.  Another process
\* writes other bytes under the path while the call is between two stages.
Rewrite ==
    /\ pc \in {"signature", "scan", "load", "fallback"}
    /\ \E f \in RewriteFiles \ {file} : file' = f
    /\ UNCHANGED <<data, analysis, loaded, scan, call, pc, log, outcome,
                   patching, shared>>

InitRewrite ==
    /\ file \in RewriteFiles
    /\ call \in RewriteCalls
    /\ pc = "size"
    /\ log = <<>>
    /\ outcome = "none"
    /\ scan = NoResult
    /\ loaded = NoResult
    /\ data = <<>>
    /\ analysis = NoResult
    /\ Unpatched
    /\ NoThreads

NextRewrite ==
    \/ NextLoad
    \/ Rewrite

SpecRewrite == InitRewrite /\ [][NextRewrite]_vars

---------------------------------------------------------------------------
(* Properties of the analyzer and of the restricted unpickler              *)

\* The (module, name) pairs find_class was asked for during the load.
Requested(r) == r.resolved \o r.rejected

\* The import name under which the analyzer lists a (module, name) pair:
\* "module.name" from STACK_GLOBAL, "module name" from GLOBAL.
ListedUnsafe(pair, a) ==
    \/ InList(Dotted(pair[1], pair[2]), a.unsafe_imports)
    \/ InList(Spaced(pair[1], pair[2]), a.unsafe_imports)

\* C1: every import target that the analysis of a stream lists in
\* unsafe_imports and that the restricted load of the same stream asks
\* find_class for is refused with MaliciousModelError: it is never returned
\* by find_class and never invoked.
C1_FailClosedAtLoad ==
    (Done(analysis) /\ Done(loaded)) =>
        \A i \in 1..Len(Requested(loaded)) :
            LET pair == Requested(loaded)[i]
            IN  ListedUnsafe(pair, analysis) =>
                    /\ loaded.status = "MaliciousModelError"
                    /\ InList(pair, loaded.rejected)
                    /\ ~ InList(pair, loaded.resolved)
                    /\ ~ InList(Dotted(pair[1], pair[2]), loaded.invoked)

\* module is an allowed module or a dotted submodule of one.
UnderAllowedModule(module) ==
    \E k \in 1..Len(safe_modules) :
        \/ module = safe_modules[k]
        \/ StartsWith(module, safe_modules[k] \o <<".">>)

\* C2: find_class returns a symbol only if module.name is an exact
\* safe_globals entry or module is an allowed module or a dotted submodule
\* of one; any other module is refused.
C2_GateExactness ==
    Done(loaded) =>
        \A i \in 1..Len(loaded.resolved) :
            LET pair == loaded.resolved[i]
            IN  \/ Dotted(pair[1], pair[2]) \in safe_globals
                \/ UnderAllowedModule(pair[1])

\* C3: an import name is left out of unsafe_imports only if it equals a
\* SAFE_CLASSES entry or starts with an allow-listed module prefix, which
\* ends at a '.' boundary.
C3_AnalyzerExactness ==
    (Done(analysis) /\ ~ analysis.error) =>
        /\ \A i \in 1..Len(analysis.global_imports) :
              LET imp == analysis.global_imports[i]
              IN  ~ InList(imp, analysis.unsafe_imports) =>
                      \/ imp \in SAFE_CLASSES
                      \/ \E k \in 1..Len(safe_patterns) :
                             StartsWith(imp, safe_patterns[k])
        /\ analysis.is_safe => analysis.unsafe_imports = <<>>

\* C4: a stream whose analysis is is_safe is never refused by the
\* restricted load for a disallowed class.
C4_AnalyzerGateAgree ==
    (Done(analysis) /\ Done(loaded) /\ analysis.is_safe) =>
        loaded.status # "MaliciousModelError"

\* A STACK_GLOBAL of the load took an operand that no tracked literal pushed.
UntrackedOperand(r) ==
    \E i \in 1..Len(r.operands) :
        ~ r.operands[i][1].tracked \/ ~ r.operands[i][2].tracked

\* C5: a stream in which a STACK_GLOBAL takes an operand that was not
\* pushed by a literal the analyzer tracks (a memo recall, or a push the
\* analyzer does not track) is classified is_safe false, whatever tracked
\* strings were pushed before.
C5_ConservativeUnresolved ==
    (Done(analysis) /\ Done(loaded) /\ ~ analysis.error
        /\ UntrackedOperand(loaded)) =>
        ~ analysis.is_safe

\* The positions of the always-dangerous opcodes of a stream, read off the bytes.
ExtPositions(stream) ==
    { i \in 1..FirstStop(stream) : stream[i].name \in {"EXT1", "EXT2", "EXT4"} }

\* C9: every EXT1, EXT2 or EXT4 of a stream that parses is listed in
\* dangerous_opcodes with its opcode and position, and is_safe is false,
\* whatever the imports of the stream.
C9_AlwaysDangerousRecorded ==
    (Done(analysis) /\ ~ analysis.error) =>
        \A i \in ExtPositions(data) :
            /\ \E j \in 1..Len(analysis.dangerous_opcodes) :
                  /\ analysis.dangerous_opcodes[j].opcode = data[i].name
                  /\ analysis.dangerous_opcodes[j].position = Offset(data, i)
            /\ ~ analysis.is_safe

\* An extension opcode is recorded although the stream's imports are all allowed.
C9_Witness ==
    /\ Done(analysis)
    /\ ~ analysis.error
    /\ ExtPositions(data) # {}
    /\ analysis.global_imports # <<>>
    /\ analysis.unsafe_imports = <<>>
    /\ ~ analysis.is_safe

\* C10: for a stream that parses, is_safe is true if and only if the stream
\* has no always-dangerous opcode and no import is unsafe, and if and only
\* if dangerous_opcodes and unsafe_imports are both empty.
C10_VerdictDefinition ==
    (Done(analysis) /\ ~ analysis.error) =>
        LET noUnsafe ==
                \A i \in 1..Len(analysis.global_imports) :
                    \/ analysis.global_imports[i] \in SAFE_CLASSES
                    \/ _is_safe_import(analysis.global_imports[i])
        IN  /\ analysis.is_safe <=> (ExtPositions(data) = {} /\ noUnsafe)
            /\ analysis.is_safe <=> (/\ analysis.dangerous_opcodes = <<>>
                                     /\ analysis.unsafe_imports = <<>>)

\* A parsed stream with an allowed import and a call is classified safe.
C10_Witness ==
    /\ Done(analysis)
    /\ ~ analysis.error
    /\ analysis.is_safe
    /\ analysis.global_imports # <<>>
    /\ "REDUCE" \in analysis.opcodes_found

---------------------------------------------------------------------------
(* Properties of safe_load                                                 *)

\* C6: when the policy enforces, an unsafe pre-load scan and a restricted
\* load that raises each end the call with MaliciousModelError, and the
\* unguarded loader is never invoked and returns no object.
C6_EnforceHardFailure ==
    call.enforce =>
        /\ ~ InList("unguarded_load", log)
        /\ pc # "fallback"
        /\ outcome # "returned unguarded"
        /\ (Done(scan) /\ ~ scan.is_safe) =>
               (pc = "done" /\ outcome = "MaliciousModelError")
        /\ (Done(loaded) /\ loaded.status # "ok") =>
               (pc = "done" /\ outcome = "MaliciousModelError")

\* Enforce mode, the scan found nothing, and the restricted load raised.
C6_Witness ==
    /\ call.enforce
    /\ Done(scan)
    /\ scan.is_safe
    /\ Done(loaded)
    /\ loaded.status = "MaliciousModelError"
    /\ outcome = "MaliciousModelError"

\* C7 as claimed: a call of the unguarded loader implies that enforce is
\* off and that the restricted load was not run in that call.
C7_FallbackWithoutRestrictedLoad ==
    InList("unguarded_load", log) =>
        /\ ~ call.enforce
        /\ ~ InList("restricted_load", log)

\* C7 as amended: a call of the unguarded loader implies that enforce is
\* off and that the try block of that call (opening the file and running
\* the restricted load) has raised before it.
C7_FallbackAfterRestrictedFailure ==
    InList("unguarded_load", log) =>
        /\ ~ call.enforce
        /\ Done(loaded)
        /\ loaded.status # "ok"
        /\ log[Len(log)] = "unguarded_load"
        /\ \A i \in 1..(Len(log) - 1) : log[i] # "unguarded_load"

\* The unguarded loader runs after the restricted load ran and raised.
C7_Witness ==
    /\ InList("unguarded_load", log)
    /\ InList("restricted_load", log)
    /\ loaded.status = "MaliciousModelError"
    /\ outcome = "returned unguarded"

---------------------------------------------------------------------------
(* Properties of scan_file on archives                                     *)

HasFindings(a) == a.dangerous_opcodes # <<>> \/ a.unsafe_imports # <<>>

Analysed(filename, result) ==
    \E j \in 1..Len(result.files_scanned) :
        result.files_scanned[j].filename = filename

\* Every threat begins with the file name of a member of the archive, and
\* a member whose analysis has no finding contributes none.
ThreatsLabelled(f, result) ==
    /\ \A k \in 1..Len(result.threats) :
          \E i \in 1..Len(f.members) :
              StartsWith(result.threats[k], f.members[i].filename \o <<":"," ">>)
    /\ \A i \in 1..Len(f.members) :
          ~ HasFindings(analyze_pickle_opcodes(f.members[i].stream)) =>
              \A k \in 1..Len(result.threats) :
                  ~ StartsWith(result.threats[k], f.members[i].filename \o <<":"," ">>)

\* A threat of the result begins with this member's file name.
Reported(filename, result) ==
    \E k \in 1..Len(result.threats) :
        StartsWith(result.threats[k], filename \o <<":"," ">>)

PickleSuffixes == {".pkl", ".pickle", ".pth", ".pt", ".joblib"}

---------------------------------------------------------------------------
(* Properties of malformed input                                           *)

\* The buffer holds a STOP that is preceded only by complete, known opcodes.
WellFormed(stream) ==
    \E k \in 1..Len(stream) :
        /\ stream[k].name = "STOP"
        /\ \A j \in 1..(k - 1) : stream[j].name \notin {"UNKNOWN", "CUT"}

\* C11: analyze_pickle_opcodes returns a dictionary for every buffer, and
\* for a buffer that does not disassemble (empty, cut in an argument, no
\* STOP, unknown opcode byte) the dictionary has is_safe false and an error
\* entry, and reports no import and no opcode.
C11_MalformedNeverCrashes ==
    Done(analysis) =>
        /\ analysis.error <=> ~ WellFormed(data)
        /\ analysis.error =>
              /\ ~ analysis.is_safe
              /\ analysis.unsafe_imports = <<>>
              /\ analysis.dangerous_opcodes = <<>>

\* An unknown opcode byte ahead of a STOP was analysed.
C11_Witness ==
    /\ Done(analysis)
    /\ FirstBad(data) # 0
    /\ FirstStop(data) > FirstBad(data)
    /\ data[FirstBad(data)].name = "UNKNOWN"
    /\ analysis.error
    /\ ~ analysis.is_safe

---------------------------------------------------------------------------
(* Properties of scan_file                                                 *)

\* The call handed a ScanResult back to its caller.
Returned(r) == Done(r) /\ "raised" \notin DOMAIN r

\* The failure cases of a scan: a missing path, a directory, an unsupported
\* extension, an unreadable file, a corrupted archive, a malformed pickle.
FailureCase(f) ==
    \/ ~ f.exists
    \/ ~ f.is_file
    \/ Lower(f.suffix) \notin supported_extensions
    \/ ~ f.readable
    \/ ~ f.searchable
    \/ f.format = "corrupt_zip"
    \/ f.format = "stream" /\ ~ WellFormed(f.stream)

\* C12: scan_file hands a ScanResult back for every path and file-system
\* state, no exception reaches the caller, and in each failure case the
\* result has is_safe false and an error entry.
C12_ScanNeverThrows ==
    Done(scan) =>
        /\ Returned(scan)
        /\ FailureCase(file) => (~ scan.is_safe /\ scan.error # "")

---------------------------------------------------------------------------
(* Properties of the worked scenarios                                      *)

\* A valid protocol header, then a cut in the middle of an argument.
Truncated(stream) ==
    /\ Len(stream) >= 2
    /\ stream[1].name = "PROTO"
    /\ stream[Len(stream)].name = "CUT"
    /\ FirstStop(stream) = 0

\* What safe_load raises for a disallowed construction, and the exceptions
\* of the pickle machinery and of the file system.
DisallowedKind == "MaliciousModelError"

GenericFaults == {"UnpicklingError", "OSError", "FileNotFoundError"}

\* C13: for a truncated stream the scan is unsafe with an error entry, and
\* a load that gets as far as reading the stream ends with an error whose
\* kind is neither the one of a disallowed construction nor a generic fault.
C13_TruncatedDistinguished ==
    Truncated(file.stream) =>
        /\ Done(scan) => (~ scan.is_safe /\ scan.error # "")
        /\ (Done(loaded) /\ pc = "done") =>
               /\ outcome \notin {"returned restricted", "returned unguarded"}
               /\ outcome # DisallowedKind
               /\ outcome \notin GenericFaults

\* The stream imports os.system with the direct-import opcode.
IsShellImport(item) ==
    item.name = "GLOBAL" /\ item.s1 = S_os /\ item.s2 = S_system

HasShellImport(stream) ==
    \E i \in 1..FirstStop(stream) : IsShellImport(stream[i])

\* The restricted load refused os.system and called nothing.
ShellImportRefused(r) ==
    /\ r.status = "MaliciousModelError"
    /\ r.rejected = <<(<<S_os, S_system>>)>>
    /\ r.resolved = <<>>
    /\ r.invoked = <<>>

IndicesOf(stream, Test(_)) ==
    SelectSeq([i \in 1..FirstStop(stream) |-> i], LAMBDA i : Test(stream[i]))

IsPotentiallyDangerous(item) == item.name \in POTENTIALLY_DANGEROUS_OPCODES

---------------------------------------------------------------------------
(* Properties of the size pre-check                                        *)

\* The size of the file, or of the directory, exceeds get_max_file_size().
SizeExceeds == file.exists /\ call.too_large

\* C15: in every loader's safe_load, a file larger than the limit ends the
\* call with PolicyError, and neither the signature verification, nor the
\* scan, nor a restricted, unguarded or framework load is performed.
C15_SizeCheckFirst ==
    SizeExceeds =>
        /\ pc \in {"size", "done"}
        /\ pc = "done" => (outcome = "PolicyError" /\ log = <<"stat">>)
        /\ \A i \in 1..Len(log) : log[i] = "stat"
        /\ scan = NoResult
        /\ loaded = NoResult

\* A call that would verify, scan and load ended at the size check.
C15_Witness ==
    /\ SizeExceeds
    /\ call.require_signatures
    /\ call.scan_on_load
    /\ call.loader = "onnx"
    /\ pc = "done"
    /\ outcome = "PolicyError"

---------------------------------------------------------------------------
(* Properties of patched()                                                 *)

\* C16: after a context has exited (its body returned or raised, or its
\* set-up raised) every attribute it replaced has the value it had when the
\* context was entered; with no context open every attribute is the
\* original loader; and every attribute an open context has replaced is
\* the safe loader, also after a context nested in it has exited.
C16_PatchedRestores ==
    /\ Done(last_exit) =>
          \A a \in last_exit.replaced : loaders[a] = last_exit.before[a]
    /\ contexts = <<>> => \A a \in Attributes : loaders[a] = "original"
    /\ \A k \in 1..Len(contexts) :
          \A a \in DOMAIN contexts[k].original_loaders :
              loaders[a] = "safe_load"

\* An inner context that replaced two loaders left by an exception while
\* the outer one is open.
C16_Witness ==
    /\ Done(last_exit)
    /\ last_exit.how = "body raised"
    /\ Cardinality(last_exit.replaced) >= 2
    /\ Len(contexts) = 1
    /\ contexts[1].state = "body"
    /\ loaders["torch.load"] = "safe_load"
    /\ last_exit.before["torch.load"] = "safe_load"

---------------------------------------------------------------------------
(* Properties of concurrent loads                                          *)

\* C17: in every interleaving of concurrent safe_load calls, each
\* deserialization runs with the restricted unpickler, each call ends as it
\* does when run alone, and when all calls have returned
\* joblib.numpy_pickle.Unpickler is the original class.
C17_ConcurrentLoadsIsolated ==
    /\ \A t \in DOMAIN threads :
          threads[t].pc \in {"restore", "done"} =>
              /\ threads[t].used = "RestrictedUnpickler"
              /\ threads[t].status = RestrictedLoad(threads[t].stream).status
    /\ (threads # <<>> /\ \A t \in DOMAIN threads : threads[t].pc = "done") =>
          Unpickler = "Unpickler"

---------------------------------------------------------------------------
(* The round trip                                                          *)

\* Every class an object is built from is in safe_globals or in a module
\* of safe_modules.
RECURSIVE AllowListed(_)
AllowListed(v) ==
    /\ v.kind = "object" =>
           \/ v.text \in safe_globals
           \/ \E k \in 1..Len(safe_modules) : StartsWith(ClassOf(v)[1], safe_modules[k])
    /\ \A i \in 1..Len(v.items) : AllowListed(v.items[i])

---------------------------------------------------------------------------
(* The import forms                                                        *)

\* C19: a stream that imports exactly one name of SAFE_CLASSES is classified
\* safe, with no unsafe import, whether the name is the argument of GLOBAL
\* or two strings consumed by STACK_GLOBAL.
C19_SafeClassEitherForm ==
    Done(analysis) =>
        /\ ~ analysis.error
        /\ analysis.unsafe_imports = <<>>
        /\ analysis.is_safe

---------------------------------------------------------------------------
(* No execution during scan                                                *)

NoEffects == [imported |-> {}, invoked |-> <<>>]

\* What unpickling has done so far: the modules imported and the callables
\* invoked.
Effects ==
    IF Done(loaded)
    THEN [imported |-> { loaded.resolved[i][1] : i \in 1..Len(loaded.resolved) },
          invoked  |-> loaded.invoked]
    ELSE NoEffects

\* C20: analyze_pickle_opcodes and scan_file import no module named in the
\* stream and invoke no callable from it: a step that produces an analysis
\* or a scan result leaves the effects as they were.
C20_NoExecutionDuringScan ==
    [][(analysis' # analysis \/ scan' # scan) => Effects' = Effects]_vars

\* A payload that calls os.system when unpickled has been analyzed and
\* scanned, and nothing was imported or invoked.
C20_Witness ==
    /\ Done(analysis)
    /\ Done(scan)
    /\ ~ scan.is_safe
    /\ PickleLoad(data).invoked # <<>>
    /\ Effects = NoEffects

---------------------------------------------------------------------------
(* Determinism                                                             *)

\* C21: two calls of analyze_pickle_opcodes on the same buffer return the
\* same result, whatever calls ran between them or beside them in other
\* threads; the result is that of the call running alone.
C21_Deterministic ==
    \A e \in log : e.result = analyze_pickle_opcodes(e.buffer)

\* Every buffer has been analyzed, one of them while another thread was
\* inside the loop of its own call.
C21_Witness ==
    /\ \A buffer \in CallBuffers : \E e \in log : e.buffer = buffer
    /\ \E t \in Threads : threads[t].pc = "loop" /\ threads[t].i > 0

---------------------------------------------------------------------------
(* Inert formats                                                           *)

\* The file with its bytes taken away.
Emptied(f) == [f EXCEPT !.format = "other", !.stream = <<>>, !.members = <<>>, !.readable = FALSE]

---------------------------------------------------------------------------
(* The simulated stack and the unpickler's stack                           *)

\* C23: the name the analyzer reports for the k-th STACK_GLOBAL of a stream
\* is the (module, symbol) pair the unpickler pops at that opcode, or else
\* the import is reported as unresolved.
C23_SimulatedStackFollows ==
    (Done(analysis) /\ Done(loaded) /\ ~ analysis.error) =>
        \A k \in 1..Len(loaded.operands) :
            /\ k <= Len(analysis.stack_global_imports)
            /\ \/ analysis.stack_global_imports[k] = UNKNOWN_STACK_GLOBAL
               \/ analysis.stack_global_imports[k] = Dotted(loaded.operands[k][1].text, loaded.operands[k][2].text)

---------------------------------------------------------------------------
(* The invoke form                                                         *)

\* The REDUCE opcodes of a stream that no GLOBAL or STACK_GLOBAL precedes.
UntraceableReduces(stream) ==
    { i \in 1..FirstStop(stream) :
        /\ stream[i].name = "REDUCE"
        /\ \A j \in 1..(i - 1) : stream[j].name \notin {"GLOBAL", "STACK_GLOBAL"} }

\* C24: a REDUCE with no preceding GLOBAL or STACK_GLOBAL resolution is
\* listed in dangerous_opcodes and the stream is classified is_safe false.
C24_UntraceableInvokeReported ==
    (Done(analysis) /\ ~ analysis.error) =>
        \A i \in UntraceableReduces(data) :
            /\ \E j \in 1..Len(analysis.dangerous_opcodes) :
                  /\ analysis.dangerous_opcodes[j].opcode = "REDUCE"
                  /\ analysis.dangerous_opcodes[j].position = Offset(data, i)
            /\ ~ analysis.is_safe

---------------------------------------------------------------------------
(* Opcodes that carry a class name                                         *)

\* C25: a stream in which INST names a class is classified is_safe false
\* whenever the stream importing the same name through GLOBAL is.
C25_InstCheckedAsGlobal ==
    (Done(analysis) /\ ~ analysis.error) =>
        \A i \in 1..Len(data) :
            (/\ data[i].name = "INST"
             /\ ~ analyze_pickle_opcodes(DirectImport(data[i].s1, data[i].s2)).is_safe) =>
                ~ analysis.is_safe

---------------------------------------------------------------------------
(* Archives with a malformed member                                        *)

\* C26: the result of scan_file for an archive is safe only if the analysis
\* of every scanned member is safe; a member whose analysis failed to parse
\* makes the archive unsafe.
C26_MalformedMemberUnsafe ==
    (Done(scan) /\ "none" \notin DOMAIN scan /\ "raised" \notin DOMAIN scan /\ scan.format = "zip") =>
        (scan.is_safe =>
            \A i \in 1..Len(scan.files_scanned) : scan.files_scanned[i].analysis.is_safe)

---------------------------------------------------------------------------
(* Loader calls inside patched()                                           *)

\* C27: a call through a replaced entry point enters the safe_load exactly
\* once, and the safe loader's own call of the framework loader reaches the
\* original loader.
C27_DispatchedOnce ==
    \A i \in 1..Len(log) :
        log[i].patched =>
            /\ log[i].call.entries = 1
            /\ log[i].stage = "calls" => log[i].call.original

---------------------------------------------------------------------------
(* Properties of the signature gate                                        *)

\* The place of a stage in the order size check, signature, scan, load.
Rank(stage) ==
    CASE stage = "stat" -> 1
      [] stage = "verify_signature" -> 2
      [] stage = "scan_file" -> 3
      [] OTHER -> 4

Verified == \E i \in 1..Len(log) : log[i] = "verify_signature"

\* The '.sig' file exists, verifies, and its signer is trusted by the policy.
Acceptable ==
    /\ call.sig.exists
    /\ call.sig.sigstore
    /\ call.sig.valid
    /\ is_signer_trusted(call.trusted_signers, call.sig.signer)

\* C28: in every loader's safe_load the stages run in the order size check,
\* signature verification, scan, load; when signatures are required the
\* call passes the signature stage only if the '.sig' file exists, verifies
\* and the signer of that signature is trusted, and otherwise ends with
\* SignatureError before any scan or load; and a valid signature of a
\* signer listed in trusted_signers is accepted.
C28_SignatureGate ==
    /\ \A i, j \in 1..Len(log) : i < j => Rank(log[i]) <= Rank(log[j])
    /\ (call.require_signatures /\ pc \in {"scan", "load", "fallback"}) => Acceptable
    /\ (call.require_signatures /\ Verified /\ ~ Acceptable) =>
          /\ pc = "done"
          /\ outcome = "SignatureError"
          /\ log = <<"stat", "verify_signature">>
          /\ scan = NoResult
          /\ loaded = NoResult
    /\ (call.require_signatures /\ Verified /\ call.sig.exists /\ call.sig.sigstore
            /\ call.sig.valid /\ call.sig.signer \in call.trusted_signers) =>
          outcome # "SignatureError"

---------------------------------------------------------------------------
(* Properties of patched() in several threads                              *)

\* C29: for any interleaving of the entries and exits of the patched()
\* contexts of different threads, once every context has exited each
\* framework loader attribute is the original loader, and while a context
\* is open every attribute it replaced is the safe loader.
C29_OverlapNoResidue ==
    /\ (\A t \in Threads : contexts[t].state = "closed") =>
          \A a \in Attributes : loaders[a] = "original"
    /\ \A t \in Threads :
          contexts[t].state = "body" =>
              \A a \in DOMAIN contexts[t].original_loaders :
                  loaders[a] = "safe_load"

---------------------------------------------------------------------------
(* Properties of the path between the scan and the load                    *)

\* C30: in a safe_load call with scan_on_load and enforce on, the bytes that
\* the restricted load deserializes are the bytes that the scan classified:
\* the scan result and the result of the restricted load are those of one
\* and the same content of the file, which the scan found safe.
C30_LoadedIsScanned ==
    (call.scan_on_load /\ call.enforce /\ Done(scan) /\ Done(loaded)) =>
        \E f \in RewriteFiles :
            /\ scan = scan_file(f)
            /\ scan.is_safe
            /\ loaded = RestrictedAttempt(f).result

=============================================================================
